---- MODULE Spec2Model ----
(***************************************************************************)
(* Dispatch engine of the Cloud Code proxy: sendMessageStream and          *)
(* sendMessage, the account pool they drive, and the upstream they talk to.*)
(*                                                                         *)
(* Time is kept relative to the current instant: a rate-limit entry holds  *)
(* the milliseconds that remain until its reset instant (resetTime - now), *)
(* a sleeping dispatch holds the milliseconds that remain of its sleep.    *)
(***************************************************************************)
EXTENDS Integers, Sequences, FiniteSets, TLC

VARIABLES pool, req, obs, lastSuccess, started, scenario, wire

vars == <<pool, req, obs, lastSuccess, started, scenario, wire>>

----------------------------------------------------------------------------
(* Bounds of the model *)

MaxPool == 2
MaxConcurrent == 2
MaxRequests == 1
MaxEvents == 1
ClockStepMs == 250000

(* Program constants *)

MAX_RETRIES == 5
MAX_EMPTY_RESPONSE_RETRIES == 2
DEFAULT_COOLDOWN_MS == 10000
MAX_WAIT_BEFORE_ERROR_MS == 120000

ANTIGRAVITY_ENDPOINT_FALLBACKS == <<"daily", "prod">>

NumEndpoints == Len(ANTIGRAVITY_ENDPOINT_FALLBACKS)

(* the low Gemini model falls back to the flash Gemini model *)
MODEL_FALLBACK_MAP_sameFamily ==
    [m \in {"gemini-3-pro-high", "gemini-3-pro-low", "gemini-3-flash",
            "claude-opus-4-5-thinking", "claude-sonnet-4-5-thinking",
            "claude-sonnet-4-5"} |->
        CASE m = "gemini-3-pro-high" -> "claude-opus-4-5-thinking"
          [] m = "gemini-3-pro-low" -> "gemini-3-flash"
          [] m = "gemini-3-flash" -> "claude-sonnet-4-5-thinking"
          [] m = "claude-opus-4-5-thinking" -> "gemini-3-pro-high"
          [] m = "claude-sonnet-4-5-thinking" -> "gemini-3-flash"
          [] m = "claude-sonnet-4-5" -> "gemini-3-flash"]

MODEL_FALLBACK_MAP ==
    [m \in {"gemini-3-pro-high", "gemini-3-pro-low", "gemini-3-flash",
            "claude-opus-4-5-thinking", "claude-sonnet-4-5-thinking",
            "claude-sonnet-4-5"} |->
        CASE m = "gemini-3-pro-high" -> "claude-opus-4-5-thinking"
          [] m = "gemini-3-pro-low" -> "claude-sonnet-4-5"
          [] m = "gemini-3-flash" -> "claude-sonnet-4-5-thinking"
          [] m = "claude-opus-4-5-thinking" -> "gemini-3-pro-high"
          [] m = "claude-sonnet-4-5-thinking" -> "gemini-3-flash"
          [] m = "claude-sonnet-4-5" -> "gemini-3-flash"]

NoModel == ""

getFallbackModel(m) ==
    IF m \in DOMAIN MODEL_FALLBACK_MAP THEN MODEL_FALLBACK_MAP[m] ELSE NoModel

(* Inputs *)

RequestModels == {"gemini-3-pro-high", "gemini-2.5-flash-lite"}

Models == (RequestModels \cup {getFallbackModel(m) : m \in RequestModels}) \ {NoModel}

Accounts == 1..MaxPool

Requests == 1..MaxConcurrent

NoAccount == 0

ShortResetMs == 5000
LongResetMs == 200000
MidResetMs == 15000

ResetTimes == {0, ShortResetMs, LongResetMs}
Statuses == {200, 400, 401, 429, 500, 502}

Min(a, b) == IF a < b THEN a ELSE b
Max(a, b) == IF a > b THEN a ELSE b

----------------------------------------------------------------------------
(* Errors: the message prefix the code builds, and the status it embeds *)

MkError(kind, status) ==
    [kind |-> kind, status |-> status, resetTime |-> 0, is429 |-> FALSE, model |-> ""]

NoError == MkError("none", 0)

isRateLimitError(e) ==
    \/ e.kind \in {"QUOTA_EXHAUSTED", "RATE_LIMITED_AFTER_RETRY", "RATE_LIMITED",
                   "429 RESOURCE_EXHAUSTED during retry", "Rate limited", "RESOURCE_EXHAUSTED"}
    \/ e.status = 429

isAuthError(e) == e.kind \in {"401 AUTH_INVALID during retry", "AuthError"}

isEmptyResponseError(e) == e.kind = "EmptyResponseError"

isNetworkError(e) == e.kind = "NetworkError"

Is5xxMessage(e) ==
    \/ e.kind = "API error" /\ e.status \div 100 = 5
    \/ e.kind \in {"API error", "Empty response retry failed"} /\ e.status \in {500, 503}

----------------------------------------------------------------------------
(* Account pool.  rateLimits[a][m] is -1 when a is free for m, otherwise   *)
(* the milliseconds that remain until the reset instant (0: the instant    *)
(* has passed and the entry awaits the sweep).                             *)

Free == -1

PoolAccounts(p) == 1..p.size

getAccountCount(p) == p.size

IsLimited(p, a, m) == p.rateLimits[a][m] > 0

clearExpiredLimits(p) ==
    [p EXCEPT !.rateLimits =
        [a \in Accounts |-> [m \in Models |->
            IF p.rateLimits[a][m] = 0 THEN Free ELSE p.rateLimits[a][m]]]]

getAvailableAccounts(p, m) == {a \in PoolAccounts(p) : ~IsLimited(p, a, m)}

isAllRateLimited(p, m) ==
    /\ p.size > 0
    /\ \A a \in PoolAccounts(p) : IsLimited(p, a, m)

SetMin(S) == CHOOSE x \in S : \A y \in S : x <= y

getMinWaitTimeMs(p, m) ==
    IF isAllRateLimited(p, m)
    THEN SetMin({p.rateLimits[a][m] : a \in PoolAccounts(p)})
    ELSE 0

getCurrentStickyAccount(p, m) ==
    IF p.sticky[m] # NoAccount /\ ~IsLimited(p, p.sticky[m], m)
    THEN p.sticky[m]
    ELSE NoAccount

(* The offsets 1..size from the round-robin index at which a free account sits *)
FreeOffsets(p, m) ==
    {i \in 1..p.size : ~IsLimited(p, ((p.currentIndex + i) % p.size) + 1, m)}

pickNext(p, m) ==
    IF p.size = 0 \/ FreeOffsets(p, m) = {}
    THEN [pool |-> p, account |-> NoAccount]
    ELSE LET idx == (p.currentIndex + SetMin(FreeOffsets(p, m))) % p.size
         IN  [pool |-> [p EXCEPT !.currentIndex = idx, !.sticky[m] = idx + 1],
              account |-> idx + 1]

markRateLimited(p, a, resetMs, m) ==
    LET cooldownMs == IF resetMs > 0 THEN resetMs ELSE DEFAULT_COOLDOWN_MS
    IN  [p EXCEPT !.rateLimits[a][m] = cooldownMs,
                  !.sticky[m] = IF @ = a THEN NoAccount ELSE @]

clearTokenCache(p, a) == [p EXCEPT !.tokenCache[a] = FALSE]

clearProjectCache(p, a) == [p EXCEPT !.projectCache[a] = FALSE]

(* d milliseconds pass *)
Elapsed(p, d) ==
    [p EXCEPT !.rateLimits =
        [a \in Accounts |-> [m \in Models |->
            IF p.rateLimits[a][m] = Free THEN Free ELSE Max(0, p.rateLimits[a][m] - d)]]]

(* A model name is the sequence of its hyphen-separated words.              *)
toLowerCase(word) ==
    CASE word = "Claude" -> "claude"
      [] word = "Gemini" -> "gemini"
      [] word = "Thinking" -> "thinking"
      [] OTHER -> word

lower(modelName) == [i \in DOMAIN modelName |-> toLowerCase(modelName[i])]

includes(name, word) == \E i \in DOMAIN name : name[i] = word

(* parseInt of the digits a word starts with; -1 when it starts with none.  *)
parseInt(word) ==
    CASE word = "2.5" -> 2
      [] word = "3" -> 3
      [] word = "4" -> 4
      [] word = "5" -> 5
      [] OTHER -> -1

getModelFamily(modelName) ==
    LET name == lower(modelName)
    IN  IF includes(name, "claude") THEN "claude"
        ELSE IF includes(name, "gemini") THEN "gemini"
        ELSE "unknown"

(* /gemini-(\d+)/ : the leftmost "gemini-" that digits follow.              *)
versionMatch(name) ==
    LET at == {i \in DOMAIN name : /\ name[i] = "gemini"
                                   /\ i + 1 \in DOMAIN name
                                   /\ parseInt(name[i + 1]) >= 0}
    IN  IF at = {} THEN -1
        ELSE parseInt(name[(CHOOSE i \in at : \A j \in at : i <= j) + 1])

isThinkingModel(modelName) ==
    LET name == lower(modelName)
    IN  IF includes(name, "claude") /\ includes(name, "thinking") THEN TRUE
        ELSE IF includes(name, "gemini")
             THEN IF includes(name, "thinking") THEN TRUE
                  ELSE versionMatch(name) >= 3
             ELSE FALSE

(* split('-') of the names of the models that are requested or fallen back to *)
split(model) ==
    CASE model = "gemini-3-pro-high" -> <<"gemini", "3", "pro", "high">>
      [] model = "gemini-3-pro-low" -> <<"gemini", "3", "pro", "low">>
      [] model = "gemini-3-flash" -> <<"gemini", "3", "flash">>
      [] model = "gemini-2.5-flash-lite" -> <<"gemini", "2.5", "flash", "lite">>
      [] model = "claude-opus-4-5-thinking" -> <<"claude", "opus", "4", "5", "thinking">>
      [] model = "claude-sonnet-4-5-thinking" -> <<"claude", "sonnet", "4", "5", "thinking">>
      [] model = "claude-sonnet-4-5" -> <<"claude", "sonnet", "4", "5">>
      [] OTHER -> <<model>>

(* every call goes to the JSON path *)
urlOf_alwaysJson(entry, model) == "/v1internal:generateContent"

(* const url of an endpoint, without the endpoint: streaming-handler.js    *)
(* 110, message-handler.js 110-112                                         *)
urlOf(entry, model) ==
    IF entry = "sendMessageStream" THEN "/v1internal:streamGenerateContent?alt=sse"
    ELSE IF isThinkingModel(split(model))
         THEN "/v1internal:streamGenerateContent?alt=sse"
         ELSE "/v1internal:generateContent"

(* the accept argument of buildHeaders: streaming-handler.js 114,          *)
(* message-handler.js 116                                                  *)
acceptOf(entry, model) ==
    IF entry = "sendMessageStream" THEN "text/event-stream"
    ELSE IF isThinkingModel(split(model)) THEN "text/event-stream"
         ELSE "application/json"

----------------------------------------------------------------------------
(* One dispatch.  A handler works on s = [pool, rq, ob, ls, scenario]: the     *)
(* pool, the dispatch's own variables, what an observer of the dispatch    *)
(* has seen, the account of the last completed response per model, and the *)
(* scenario of the specification: the observers that are switched on (a    *)
(* specification observes only what its claims need; the control flow of a *)
(* dispatch does not depend on them) and the inputs the environment draws  *)
(* from.  The token and project caches are written by a dispatch and read  *)
(* only inside getTokenForAccount and getProjectForAccount, whose outcome  *)
(* is an input: they are followed when "caches" is observed.               *)

Watched(s, observer) == observer \in s.scenario.watch

CallCap == Max(MAX_RETRIES, MaxPool + 1) * NumEndpoints + 2

Sat(n, cap) == IF n < cap THEN n + 1 ELSE cap

IterCap == Max(MAX_RETRIES, MaxPool + 1) + 1

(* the observer of termination notes a rate-limit sleep of ms milliseconds *)
SleepSeen(s, ms) ==
    IF Watched(s, "live")
    THEN [s EXCEPT !.ob.longSleep = @ \/ ms > MAX_WAIT_BEFORE_ERROR_MS + 500]
    ELSE s

NoLongWait == [seen |-> FALSE, model |-> NoModel, w |-> 0, fb |-> FALSE]

(* what was seen of a short 429 answered to the first call of a request:   *)
(* the account, the endpoint and the pool at that call, the target of the  *)
(* re-issued call, and whether its 2xx response was read to its end        *)
NoShort429 ==
    [phase |-> "none", account |-> NoAccount, ep |-> 0, limit |-> 0,
     sticky |-> [m \in Models |-> NoAccount],
     reAcct |-> NoAccount, reEp |-> 0]

(* what was seen of the latest long 429 of a dispatch: the account marked, *)
(* then the account selected next, then the next upstream call             *)
NoLong429 ==
    [state |-> "none", account |-> NoAccount, model |-> NoModel, attempt |-> 0,
     resetMs |-> 0, markedFor |-> 0, nextAcct |-> NoAccount, nextModel |-> NoModel,
     nextFree |-> FALSE, expired |-> FALSE, callAcct |-> NoAccount, sameAttempt |-> FALSE]

IdleRq ==
    [pc |-> "idle", entry |-> "sendMessageStream",
     model |-> NoModel, origModel |-> NoModel, fallbackEnabled |-> FALSE,
     attempt |-> 0, maxAttempts |-> 0, account |-> NoAccount, ep |-> 0,
     retriedOnce |-> FALSE, lastError |-> NoError, emptyRetries |-> 0,
     waitMs |-> 0, timer |-> 0, evThis |-> 0, result |-> "none", error |-> NoError]

IdleOb ==
    [calls |-> 0, lwCall |-> FALSE, hops |-> 0, yielded |-> 0, callsAfterYield |-> FALSE,
     stops |-> 0, errors |-> 0, synth |-> 0, synthAfterYield |-> FALSE,
     emptyStreak |-> 0, synthStreak |-> 0, limitedCall |-> FALSE,
     sinceWait |-> "none", lw |-> [h \in 0..1 |-> NoLongWait],
     expect |-> NoAccount, firstSel |-> NoAccount, selected |-> FALSE,
     q429 |-> NoLong429, s429 |-> NoShort429,
     e13 |-> [streak |-> 0, refetches |-> 0, ok |-> TRUE],
     fb0 |-> FALSE, models |-> {},
     bad |-> [seen |-> FALSE, status |-> 0],
     client |-> "connected", callAfterGone |-> FALSE,
     iters |-> [h \in 0..1 |-> 0], longSleep |-> FALSE,
     tok |-> [rejected |-> FALSE, account |-> NoAccount, staleCall |-> FALSE],
     net |-> [failed |-> FALSE, attempt |-> 0, callSameAttempt |-> FALSE],
     x5 |-> [count |-> 0, ok |-> TRUE, continued |-> FALSE],
     once |-> [reissues |-> 0, again |-> FALSE, ok |-> TRUE],
     r24 |-> [wait |-> 0, status |-> 0, ok |-> TRUE],
     a401 |-> [count |-> 0, all |-> FALSE, ok |-> TRUE],
     m26 |-> [account |-> NoAccount, got429 |-> FALSE, marked |-> FALSE, ok |-> TRUE],
     x27 |-> [count |-> 0, ok |-> TRUE],
     n28 |-> [seen |-> FALSE, ok |-> TRUE],
     o29 |-> [account |-> NoAccount, lastEp |-> 0, inFlight |-> FALSE, ok |-> TRUE],
     p33 |-> {}]

(* The dispatch ends: a return of the generator, or an error thrown to its caller *)
Finish(s, result, e) ==
    [s EXCEPT !.rq = [IdleRq EXCEPT !.pc = "done", !.result = result, !.error = e,
                                    !.entry = s.rq.entry,
                                    !.model = s.rq.model, !.origModel = s.rq.origModel,
                                    !.fallbackEnabled = s.rq.fallbackEnabled],
              !.ob.errors = IF Watched(s, "stream") /\ result = "error" THEN Sat(@, 2) ELSE @]

(* the loop variable is not incremented *)
NextAttempt_sameAttempt(s) ==
    [s EXCEPT !.rq = [IdleRq EXCEPT !.pc = "loop", !.attempt = s.rq.attempt,
                                    !.maxAttempts = s.rq.maxAttempts,
                                    !.entry = s.rq.entry,
                                    !.model = s.rq.model, !.origModel = s.rq.origModel,
                                    !.fallbackEnabled = s.rq.fallbackEnabled]]

(* continue of the attempt loop: the next iteration starts at once *)
NextAttempt(s) ==
    [s EXCEPT !.rq = [IdleRq EXCEPT !.pc = "loop", !.attempt = s.rq.attempt + 1,
                                    !.maxAttempts = s.rq.maxAttempts,
                                    !.entry = s.rq.entry,
                                    !.model = s.rq.model, !.origModel = s.rq.origModel,
                                    !.fallbackEnabled = s.rq.fallbackEnabled]]

(* fetch(url, ...) is issued for the endpoint rq.ep; the dispatch awaits the answer at pc *)
IssueCall(s, pc) ==
    [s EXCEPT !.rq.pc = pc,
              !.ob.calls = IF Watched(s, "calls") THEN Sat(@, CallCap) ELSE @,
              !.ob.lwCall = @ \/ s.ob.lw[s.ob.hops % 2].seen,
              !.ob.limitedCall = @ \/ (Watched(s, "limits")
                                         /\ IsLimited(s.pool, s.rq.account, s.rq.model)),
              !.ob.callsAfterYield = @ \/ (Watched(s, "stream") /\ s.ob.yielded > 0),
              !.ob.sinceWait = IF Watched(s, "waits") THEN "called" ELSE @,
              !.ob.models = IF Watched(s, "fallback") THEN @ \cup {s.rq.model} ELSE @,
              !.ob.callAfterGone = @ \/ s.ob.client = "gone, resumed",
              !.ob.tok.staleCall = @ \/ s.ob.tok.rejected,
              !.ob.once.reissues = IF Watched(s, "once") /\ pc = "retryFetch"
                                   THEN Sat(@, 2) ELSE @,
              !.ob.net.callSameAttempt = @ \/ (s.ob.net.failed /\ s.ob.net.attempt = s.rq.attempt),
              !.ob.p33 = IF Watched(s, "paths")
                         THEN @ \cup {[entry |-> s.rq.entry, model |-> s.rq.model,
                                        reissue |-> pc = "retryFetch",
                                        url |-> urlOf(s.rq.entry, s.rq.model),
                                        accept |-> acceptOf(s.rq.entry, s.rq.model)]}
                         ELSE @,
              !.ob.o29 = IF Watched(s, "order")
                         THEN [@ EXCEPT !.inFlight = TRUE, !.lastEp = s.rq.ep,
                                        !.ok = /\ @
                                               /\ ~s.ob.o29.inFlight
                                               /\ s.rq.account # NoAccount
                                               /\ s.rq.account = s.ob.o29.account
                                               /\ s.rq.ep \in 1..NumEndpoints
                                               /\ s.rq.ep \in {s.ob.o29.lastEp,
                                                                s.ob.o29.lastEp + 1}]
                         ELSE @,
              !.ob.e13 = IF ~Watched(s, "empty") THEN @
                         ELSE IF pc \in {"refetch", "refetch2"}
                              THEN [@ EXCEPT !.refetches = Sat(@, MAX_EMPTY_RESPONSE_RETRIES + 1)]
                              ELSE [@ EXCEPT !.streak = 0, !.refetches = 0],
              !.ob.s429 = IF @.phase = "short"
                          THEN [@ EXCEPT !.phase = "reissued", !.reAcct = s.rq.account,
                                         !.reEp = s.rq.ep]
                          ELSE @,
              !.ob.q429 = IF @.state \in {"marked", "selected"}
                          THEN [@ EXCEPT !.state = "called", !.callAcct = s.rq.account,
                                         !.sameAttempt = s.ob.q429.state = "marked"]
                          ELSE @]

(* the 5xx branch of the catch is missing: the error is thrown to the caller *)
AttemptCatch_no5xxBranch(s, e) ==
    IF isRateLimitError(e) THEN NextAttempt(s)
    ELSE IF isAuthError(e) THEN NextAttempt(s)
    ELSE IF isNetworkError(e)
         THEN [s EXCEPT !.rq.pc = "sleepNetwork", !.rq.timer = 1000]
    ELSE Finish(s, "error", e)

(* catch (error) of the attempt, streaming-handler.js 277-303 *)
AttemptCatch(s, e) ==
    IF isRateLimitError(e) THEN NextAttempt(s)
    ELSE IF isAuthError(e) THEN NextAttempt(s)
    ELSE IF Is5xxMessage(e)
         THEN NextAttempt([s EXCEPT !.pool = pickNext(s.pool, s.rq.model).pool])
    ELSE IF isNetworkError(e)
         THEN [s EXCEPT !.rq.pc = "sleepNetwork", !.rq.timer = 1000]
    ELSE Finish(s, "error", e)

(* the account is marked whenever an error is left after the endpoint loop *)
AfterEndpoints_marksOnError(s) ==
    IF s.rq.lastError # NoError
    THEN AttemptCatch([s EXCEPT !.pool = markRateLimited(s.pool, s.rq.account,
                                                s.rq.lastError.resetTime, s.rq.model)],
                      s.rq.lastError)
    ELSE NextAttempt(s)

(* after the endpoint loop, streaming-handler.js 267-275 *)
AfterEndpoints(s) ==
    IF s.rq.lastError # NoError
    THEN IF s.rq.lastError.is429
         THEN AttemptCatch([s EXCEPT !.pool = markRateLimited(s.pool, s.rq.account,
                                                s.rq.lastError.resetTime, s.rq.model)],
                           MkError("Rate limited", 0))
         ELSE AttemptCatch(s, s.rq.lastError)
    ELSE NextAttempt(s)

(* after the last endpoint the list is gone through once more *)
NextEndpoint_startsOver(s) ==
    IF s.rq.ep < NumEndpoints
    THEN IssueCall([s EXCEPT !.rq.ep = @ + 1, !.rq.emptyRetries = 0, !.rq.evThis = 0,
                             !.rq.waitMs = 0, !.rq.timer = 0], "fetch")
    ELSE IF ~s.rq.retriedOnce
         THEN IssueCall([s EXCEPT !.rq.ep = 1, !.rq.retriedOnce = TRUE,
                                  !.rq.emptyRetries = 0, !.rq.evThis = 0,
                                  !.rq.waitMs = 0, !.rq.timer = 0], "fetch")
         ELSE AfterEndpoints(s)

(* continue of the endpoint loop: the next endpoint is called, if there is one *)
NextEndpoint(s) ==
    IF s.rq.ep < NumEndpoints
    THEN IssueCall([s EXCEPT !.rq.ep = @ + 1, !.rq.emptyRetries = 0, !.rq.evThis = 0,
                             !.rq.waitMs = 0, !.rq.timer = 0], "fetch")
    ELSE AfterEndpoints(s)

(* catch (endpointError), streaming-handler.js 255-264, message-handler.js 201-207 *)
EndpointCatch(s, e) ==
    IF isRateLimitError(e) THEN AttemptCatch(s, e)
    ELSE IF s.rq.entry = "sendMessageStream" /\ isEmptyResponseError(e) THEN AttemptCatch(s, e)
    ELSE NextEndpoint([s EXCEPT !.rq.lastError = e])

(* the fallback dispatch inherits the caller's fallbackEnabled *)
StartFallback_inheritsFlag(s) ==
    [s EXCEPT !.rq = [IdleRq EXCEPT !.pc = "loop",
                                    !.entry = s.rq.entry,
                                    !.model = getFallbackModel(s.rq.model),
                                    !.origModel = s.rq.origModel,
                                    !.fallbackEnabled = s.rq.fallbackEnabled,
                                    !.maxAttempts = Max(MAX_RETRIES, getAccountCount(s.pool) + 1)],
              !.ob.hops = IF Watched(s, "fallback") THEN Sat(@, 2) ELSE @,
              !.ob.selected = FALSE]

(* yield* sendMessageStream(fallbackRequest, accountManager, false), and *)
(* return await sendMessage(fallbackRequest, accountManager, false)      *)
StartFallback(s) ==
    [s EXCEPT !.rq = [IdleRq EXCEPT !.pc = "loop",
                                    !.entry = s.rq.entry,
                                    !.model = getFallbackModel(s.rq.model),
                                    !.origModel = s.rq.origModel,
                                    !.fallbackEnabled = FALSE,
                                    !.maxAttempts = Max(MAX_RETRIES, getAccountCount(s.pool) + 1)],
              !.ob.hops = IF Watched(s, "fallback") THEN Sat(@, 2) ELSE @,
              !.ob.selected = FALSE]

(* the function returns after the loop instead of throwing *)
Exhausted_returns(s) ==
    IF s.rq.fallbackEnabled /\ getFallbackModel(s.rq.model) # NoModel
    THEN StartFallback(s)
    ELSE Finish(s, "ok", NoError)

(* the fallback dispatch is started whatever fallbackEnabled says *)
Exhausted_ignoresFlag(s) ==
    IF getFallbackModel(s.rq.model) # NoModel /\ s.rq.model = s.rq.origModel
    THEN StartFallback(s)
    ELSE Finish(s, "error", MkError("Max retries exceeded", 0))

(* after the attempt loop, streaming-handler.js 306-317 *)
Exhausted(s) ==
    IF s.rq.fallbackEnabled /\ getFallbackModel(s.rq.model) # NoModel
    THEN StartFallback(s)
    ELSE Finish(s, "error", MkError("Max retries exceeded", 0))

(* the observer of exhaustion notes where the dispatch went when its      *)
(* attempts were all consumed: out is the state it was left in            *)
ExhaustedSeen(s, out) ==
    IF Watched(s, "exhaust")
    THEN [out EXCEPT !.ob.x27.count = Sat(@, 3),
                     !.ob.x27.ok =
                         /\ @
                         /\ s.rq.attempt = Max(MAX_RETRIES, getAccountCount(s.pool) + 1)
                         /\ IF s.rq.fallbackEnabled /\ getFallbackModel(s.rq.model) # NoModel
                            THEN /\ out.rq.pc = "loop"
                                 /\ out.rq.attempt = 0
                                 /\ out.rq.model = getFallbackModel(s.rq.model)
                                 /\ ~out.rq.fallbackEnabled
                                 /\ s.ob.x27.count = 0
                            ELSE /\ out.rq.pc = "done"
                                 /\ out.rq.result = "error"
                                 /\ out.rq.error = MkError("Max retries exceeded", 0)]
    ELSE out

(* the wait is compared with the wrong constant *)
WaitTooLong_wrongThreshold(minWaitMs) == minWaitMs > MAX_WAIT_BEFORE_ERROR_MS + LongResetMs

WaitTooLong(minWaitMs) == minWaitMs > MAX_WAIT_BEFORE_ERROR_MS

(* the fallback model is tried before the dispatch gives up *)
NoneAvailable_triesFallback(s) ==
    IF isAllRateLimited(s.pool, s.rq.model)
    THEN LET minWaitMs == getMinWaitTimeMs(s.pool, s.rq.model)
             seen == IF Watched(s, "fallback") /\ minWaitMs > MAX_WAIT_BEFORE_ERROR_MS
                     THEN [s EXCEPT !.ob.lw[s.ob.hops % 2] =
                              [seen |-> TRUE, model |-> s.rq.model, w |-> minWaitMs,
                               fb |-> s.rq.fallbackEnabled
                                         /\ getFallbackModel(s.rq.model) # NoModel]]
                     ELSE s
         IN  IF WaitTooLong(minWaitMs)
             THEN IF seen.rq.fallbackEnabled /\ getFallbackModel(seen.rq.model) # NoModel
                  THEN StartFallback(seen)
                  ELSE Finish(seen, "error",
                              [MkError("RESOURCE_EXHAUSTED", 0) EXCEPT
                                  !.resetTime = minWaitMs, !.model = seen.rq.model])
             ELSE [SleepSeen(seen, minWaitMs + 500) EXCEPT
                               !.rq.pc = "sleepAll", !.rq.timer = minWaitMs + 500,
                               !.ob.sinceWait = IF Watched(s, "waits") THEN "waited" ELSE @]
    ELSE IF s.rq.fallbackEnabled /\ getFallbackModel(s.rq.model) # NoModel
         THEN StartFallback(s)
         ELSE Finish(s, "error", MkError("No accounts available", 0))

(* no account is available, streaming-handler.js 52-84 *)
NoneAvailable(s) ==
    IF isAllRateLimited(s.pool, s.rq.model)
    THEN LET minWaitMs == getMinWaitTimeMs(s.pool, s.rq.model)
             seen == IF Watched(s, "fallback") /\ minWaitMs > MAX_WAIT_BEFORE_ERROR_MS
                     THEN [s EXCEPT !.ob.lw[s.ob.hops % 2] =
                              [seen |-> TRUE, model |-> s.rq.model, w |-> minWaitMs,
                               fb |-> s.rq.fallbackEnabled
                                         /\ getFallbackModel(s.rq.model) # NoModel]]
                     ELSE s
         IN  IF WaitTooLong(minWaitMs)
             THEN IF seen.rq.fallbackEnabled /\ getFallbackModel(seen.rq.model) # NoModel
                  THEN StartFallback(seen)
                  ELSE Finish(seen, "error",
                              [MkError("RESOURCE_EXHAUSTED", 0) EXCEPT
                                  !.resetTime = minWaitMs, !.model = seen.rq.model])
             ELSE [SleepSeen(seen, minWaitMs + 500) EXCEPT
                               !.rq.pc = "sleepAll", !.rq.timer = minWaitMs + 500,
                               !.ob.sinceWait = IF Watched(s, "waits") THEN "waited" ELSE @]
    ELSE Finish(s, "error", MkError("No accounts available", 0))

(* the observer of empty selections notes how an attempt that found no    *)
(* account, in a pool that is not all rate-limited, was handled: out is    *)
(* the state the dispatch was left in                                      *)
NoneSeen(s, out) ==
    IF Watched(s, "none") /\ ~isAllRateLimited(s.pool, s.rq.model)
    THEN [out EXCEPT !.ob.n28.seen = TRUE,
                     !.ob.n28.ok = /\ @
                                   /\ out.rq.pc = "done"
                                   /\ out.rq.result = "error"
                                   /\ out.rq.error = MkError("No accounts available", 0)
                                   /\ out.rq.model = s.rq.model
                                   /\ out.ob.calls = s.ob.calls
                                   /\ out.pool = s.pool]
    ELSE out

(* the account of the attempt, streaming-handler.js 86-94 *)
SelectAccount(s) ==
    LET st == getCurrentStickyAccount(s.pool, s.rq.model)
        pk == pickNext(s.pool, s.rq.model)
        account == IF st # NoAccount THEN st ELSE pk.account
        p2 == IF st # NoAccount THEN s.pool ELSE pk.pool
        last == s.ls[s.rq.model]
        first == Watched(s, "sticky") /\ ~s.ob.selected
        s2 == [s EXCEPT !.pool = p2, !.rq.account = account,
                        !.ob.m26.account = IF Watched(s, "marks") THEN account ELSE @,
                        !.ob.o29 = IF Watched(s, "order")
                                   THEN [@ EXCEPT !.account = account, !.lastEp = 0]
                                   ELSE @,
                        !.ob.q429 = IF @.state = "marked" /\ account # NoAccount
                                    THEN [@ EXCEPT !.state = "selected",
                                                   !.nextAcct = account,
                                                   !.nextModel = s.rq.model,
                                                   !.nextFree = ~IsLimited(p2, account, s.rq.model),
                                                   !.expired = ~IsLimited(p2, s.ob.q429.account,
                                                                         s.ob.q429.model)]
                                    ELSE @,
                        !.ob.selected = @ \/ Watched(s, "sticky"),
                        !.ob.firstSel = IF first THEN account ELSE @,
                        !.ob.expect = IF first /\ last # NoAccount
                                          /\ last \in PoolAccounts(s.pool)
                                          /\ ~IsLimited(s.pool, last, s.rq.model)
                                      THEN last ELSE @]
    IN  IF account = NoAccount
        THEN NextAttempt(s2)
        ELSE [s2 EXCEPT !.rq.pc = "resolve"]

(* one iteration of the attempt loop up to its first await, streaming-handler.js 44-98 *)
LoopHead(s) ==
    IF ~(s.rq.attempt < s.rq.maxAttempts)
    THEN ExhaustedSeen(s, Exhausted(s))
    ELSE LET s1 == [s EXCEPT !.pool = clearExpiredLimits(s.pool),
                             !.ob.iters[s.ob.hops % 2] = IF Watched(s, "live")
                                                         THEN Sat(@, IterCap) ELSE @,
                             !.ob.models = IF Watched(s, "fallback")
                                           THEN @ \cup {s.rq.model} ELSE @]
         IN  IF getAvailableAccounts(s1.pool, s1.rq.model) = {}
             THEN NoneSeen(s1, NoneAvailable(s1))
             ELSE SelectAccount(s1)

----------------------------------------------------------------------------
(* The upstream: what a call can answer *)

HttpResponse(status, resetMs) == [net |-> FALSE, status |-> status, resetMs |-> resetMs]

FetchFailed == [net |-> TRUE, status |-> 0, resetMs |-> 0]

Responses ==
    {HttpResponse(st, 0) : st \in Statuses \ {429}}
        \cup {HttpResponse(429, t) : t \in ResetTimes}
        \cup {FetchFailed}

(* 0 stands for null: no reset time could be parsed *)
parseResetTime(response) == response.resetMs

(* the 401 branch also marks the account limited *)
ClearCaches_alsoMarks(s) ==
    IF Watched(s, "caches")
    THEN [s EXCEPT !.pool = markRateLimited(
                                clearProjectCache(clearTokenCache(s.pool, s.rq.account),
                                                  s.rq.account),
                                s.rq.account, 0, s.rq.model)]
    ELSE s

ClearCaches(s) ==
    IF Watched(s, "caches")
    THEN [s EXCEPT !.pool = clearProjectCache(clearTokenCache(s.pool, s.rq.account),
                                              s.rq.account)]
    ELSE s

(* the observer of transport errors notes the attempt in which fetch threw *)
NetSeen(s) ==
    IF Watched(s, "net")
    THEN [s EXCEPT !.ob.net.failed = TRUE, !.ob.net.attempt = s.rq.attempt]
    ELSE s

(* what of the pool a 401 must leave alone *)
SamePoolButCaches(p, q, a) ==
    /\ q.rateLimits = p.rateLimits
    /\ q.sticky = p.sticky
    /\ q.currentIndex = p.currentIndex
    /\ q.size = p.size
    /\ \A b \in Accounts \ {a} : /\ q.tokenCache[b] = p.tokenCache[b]
                                  /\ q.projectCache[b] = p.projectCache[b]

(* the observer of 401s notes what the 401 branch did to the pool: out is *)
(* the state the branch left                                              *)
AuthSeen(s, out) ==
    IF Watched(s, "auth")
    THEN [out EXCEPT !.ob.a401.count = Sat(@, NumEndpoints),
                     !.ob.a401.ok = /\ @
                                    /\ SamePoolButCaches(s.pool, out.pool, s.rq.account)
                                    /\ ~out.pool.tokenCache[s.rq.account]
                                    /\ ~out.pool.projectCache[s.rq.account]]
    ELSE out

(* ... and, when every endpoint of the attempt has answered 401, where the *)
(* dispatch went: out is the state it was in at its next await             *)
AuthAllSeen(s, out) ==
    IF Watched(s, "auth") /\ s.rq.ep = NumEndpoints /\ s.ob.a401.count = NumEndpoints - 1
    THEN [out EXCEPT !.ob.a401.all = TRUE,
                     !.ob.a401.ok = /\ @
                                    /\ out.rq.pc = "loop"
                                    /\ out.rq.attempt = s.rq.attempt + 1
                                    /\ out.rq.result = "none"
                                    /\ out.rq.error = NoError
                                    /\ SamePoolButCaches(s.pool, out.pool, s.rq.account)]
    ELSE out

(* the observer of 5xx answers notes how the answer of an endpoint was    *)
(* handled: out is the state the handler left                            *)
Http5xxAnswered(s, out) ==
    IF Watched(s, "5xx")
    THEN [out EXCEPT !.ob.x5.count = Sat(@, NumEndpoints),
                     !.ob.x5.ok = /\ @
                                  /\ out.rq.pc = "sleep5xx"
                                  /\ out.rq.timer = 1000
                                  /\ out.pool = s.pool
                                  /\ out.rq.account = s.rq.account
                                  /\ out.rq.attempt = s.rq.attempt]
    ELSE out

(* ... and what followed the sleep: out is the state the dispatch was in *)
(* at its next await                                                     *)
Http5xxSlept(s, out) ==
    IF Watched(s, "5xx")
    THEN [out EXCEPT !.ob.x5.continued = @ \/ (s.rq.ep = NumEndpoints
                                                 /\ s.ob.x5.count = NumEndpoints),
                     !.ob.x5.ok =
                         /\ @
                         /\ out.pool.rateLimits = s.pool.rateLimits
                         /\ IF s.rq.ep < NumEndpoints
                            THEN /\ out.rq.pc = "fetch"
                                 /\ out.rq.ep = s.rq.ep + 1
                                 /\ out.rq.account = s.rq.account
                                 /\ out.rq.attempt = s.rq.attempt
                                 /\ out.pool = s.pool
                            ELSE s.ob.x5.count = NumEndpoints =>
                                     /\ out.rq.pc = "loop"
                                     /\ out.rq.attempt = s.rq.attempt + 1
                                     /\ out.rq.result = "none"]
    ELSE out

(* the token the dispatch holds for its account was answered 401 *)
TokenRejected(s) ==
    IF Watched(s, "tokens")
    THEN [s EXCEPT !.ob.tok.rejected = TRUE, !.ob.tok.account = s.rq.account]
    ELSE s

Mark(s, resetMs) ==
    [s EXCEPT !.pool = markRateLimited(s.pool, s.rq.account, resetMs, s.rq.model)]

(* getTokenForAccount and getProjectForAccount answered, streaming-handler.js 98-108 *)
Resolved(s, outcome) ==
    IF outcome = "ok"
    THEN IssueCall([s EXCEPT !.pool.tokenCache[s.rq.account] = @ \/ Watched(s, "caches"),
                             !.pool.projectCache[s.rq.account] = @ \/ Watched(s, "caches"),
                             !.ob.tok.rejected = /\ @
                                                 /\ s.ob.tok.account = s.rq.account
                                                 /\ s.pool.tokenCache[s.rq.account],
                             !.ob.x5.count = 0,
                             !.ob.m26.got429 = FALSE,
                             !.ob.a401.count = 0,
                             !.ob.once.reissues = 0,
                             !.rq.lastError = NoError,
                             !.rq.retriedOnce = FALSE,
                             !.rq.ep = 1], "fetch")
    ELSE AttemptCatch(s, MkError(outcome, 0))

(* the observer of short 429s notes the one that answers the first call *)
Short429Seen(s) ==
    IF Watched(s, "short429") /\ s.ob.calls = 1
    THEN [s EXCEPT !.ob.s429 =
            [NoShort429 EXCEPT !.phase = "short", !.account = s.rq.account, !.ep = s.rq.ep,
                               !.limit = s.pool.rateLimits[s.rq.account][s.rq.model],
                               !.sticky = s.pool.sticky]]
    ELSE s

(* the 2xx answer to the re-issued call is being read; it is unreadable *)
(* when the read raises instead of delivering the response              *)
Short429Read(s, phase) ==
    IF s.ob.s429.phase = (IF phase = "unreadable" THEN "got2xx" ELSE "reissued")
    THEN [s EXCEPT !.ob.s429.phase = phase]
    ELSE s

(* the observer of long 429s notes the mark that s carries *)
Long429Seen(s, resetMs) ==
    IF Watched(s, "long429")
    THEN [s EXCEPT !.ob.q429 =
            [NoLong429 EXCEPT !.state = "marked", !.account = s.rq.account,
                              !.model = s.rq.model, !.attempt = s.rq.attempt,
                              !.resetMs = resetMs,
                              !.markedFor = s.pool.rateLimits[s.rq.account][s.rq.model]]]
    ELSE s

(* the observer of failed re-issues notes the sleep that precedes the    *)
(* re-issue: out is the state the handler of the short 429 left          *)
RetryWaitSeen(response, out) ==
    IF Watched(out, "retry") /\ out.rq.pc = "sleepShort"
    THEN [out EXCEPT !.ob.r24.wait = out.rq.timer,
                     !.ob.r24.ok = /\ @
                                   /\ out.rq.timer = IF parseResetTime(response) > 0
                                                     THEN parseResetTime(response)
                                                     ELSE DEFAULT_COOLDOWN_MS]
    ELSE out

(* the observer of re-issues notes how a short 429 that follows a re-issue *)
(* of the same attempt was handled: out is the state the handler left      *)
Short429Again(s, waitMs, out) ==
    IF Watched(s, "once") /\ s.ob.once.reissues >= 1
    THEN [out EXCEPT !.ob.once.again = TRUE,
                     !.ob.once.ok = /\ @
                                    /\ out.rq.pc = "loop"
                                    /\ out.rq.attempt = s.rq.attempt + 1
                                    /\ out.pool.rateLimits[s.rq.account][s.rq.model] = waitMs]
    ELSE out

(* retriedOnce is not set: every short 429 is waited on *)
On429_retriesAgain(s, response) ==
    LET resetMs == parseResetTime(response)
    IN  IF resetMs > 0 /\ resetMs > DEFAULT_COOLDOWN_MS
        THEN EndpointCatch(Long429Seen(Mark(s, resetMs), resetMs), MkError("QUOTA_EXHAUSTED", 0))
        ELSE LET waitMs == IF resetMs > 0 THEN resetMs ELSE DEFAULT_COOLDOWN_MS
             IN  Short429Again(s, waitMs,
                     [SleepSeen(Short429Seen(s), waitMs) EXCEPT
                                              !.rq.waitMs = waitMs,
                                              !.rq.pc = "sleepShort", !.rq.timer = waitMs])

(* after the long 429 is marked, the endpoint loop goes on *)
On429_noThrow(s, response) ==
    LET resetMs == parseResetTime(response)
    IN  IF resetMs > 0 /\ resetMs > DEFAULT_COOLDOWN_MS
        THEN NextEndpoint(Long429Seen(Mark(s, resetMs), resetMs))
        ELSE LET waitMs == IF resetMs > 0 THEN resetMs ELSE DEFAULT_COOLDOWN_MS
             IN  IF ~s.rq.retriedOnce
                 THEN [SleepSeen(Short429Seen(s), waitMs) EXCEPT
                                              !.rq.retriedOnce = TRUE, !.rq.waitMs = waitMs,
                                              !.rq.pc = "sleepShort", !.rq.timer = waitMs]
                 ELSE EndpointCatch(Mark(s, waitMs), MkError("RATE_LIMITED", 0))

(* the answer to a 429, streaming-handler.js 129-172 *)
On429(s, response) ==
    LET resetMs == parseResetTime(response)
    IN  IF resetMs > 0 /\ resetMs > DEFAULT_COOLDOWN_MS
        THEN EndpointCatch(Long429Seen(Mark(s, resetMs), resetMs), MkError("QUOTA_EXHAUSTED", 0))
        ELSE LET waitMs == IF resetMs > 0 THEN resetMs ELSE DEFAULT_COOLDOWN_MS
             IN  RetryWaitSeen(response, Short429Again(s, waitMs,
                     IF ~s.rq.retriedOnce
                     THEN [SleepSeen(Short429Seen(s), waitMs) EXCEPT
                                              !.rq.retriedOnce = TRUE, !.rq.waitMs = waitMs,
                                              !.rq.pc = "sleepShort", !.rq.timer = waitMs]
                     ELSE EndpointCatch(Mark(s, waitMs), MkError("RATE_LIMITED", 0))))

(* the answer to the call of an endpoint, streaming-handler.js 112-188 and *)
(* message-handler.js 114-199                                             *)
OnResponse(s, response) ==
    IF response.net THEN EndpointCatch(NetSeen(s), MkError("NetworkError", 0))
    ELSE IF response.status = 200
         THEN IF s.rq.entry = "sendMessage"
              THEN [s EXCEPT !.rq.pc = "parse"]
              ELSE [s EXCEPT !.rq.emptyRetries = 0, !.rq.evThis = 0, !.rq.pc = "stream"]
    ELSE IF response.status = 401
         THEN AuthAllSeen(s, NextEndpoint(AuthSeen(s, ClearCaches(TokenRejected(s)))))
    ELSE IF response.status = 429 THEN On429(s, response)
    ELSE IF s.rq.entry = "sendMessage" /\ response.status < 400
         THEN (* message-handler.js 180: a status below 400 is not an API error; *)
              (* the body, read as errorText at line 120, is read once more at   *)
              (* lines 191-197, which throws                                     *)
              EndpointCatch(s, MkError("TypeError", 0))
    ELSE LET s2 == [s EXCEPT !.rq.lastError = MkError("API error", response.status),
                             !.ob.bad = IF Watched(s, "bad") /\ response.status < 500 /\ ~@.seen
                                        THEN [@ EXCEPT !.seen = TRUE, !.status = response.status]
                                        ELSE @]
         IN  IF response.status >= 500
             THEN Http5xxAnswered(s, [s2 EXCEPT !.rq.pc = "sleep5xx", !.rq.timer = 1000])
             ELSE NextEndpoint(s2)

(* the observer of failed re-issues notes how the answer to the re-issued *)
(* call was handled when it was not 2xx                                   *)
RetryFailedSeen(s, response, out) ==
    IF Watched(s, "retry")
    THEN [out EXCEPT !.ob.r24.status = response.status,
                     !.ob.r24.ok =
                         /\ @
                         /\ out.pool.rateLimits[s.rq.account][s.rq.model] =
                                IF parseResetTime(response) > 0 THEN parseResetTime(response)
                                ELSE s.ob.r24.wait
                         /\ out.rq.pc = "loop"
                         /\ out.rq.attempt = s.rq.attempt + 1
                         /\ out.rq.model = s.rq.model]
    ELSE out

(* the reset time of the retry response is not looked at *)
OnRetryResponse_marksWait(s, response) ==
    IF response.net
    THEN EndpointCatch(NetSeen(Short429Read(s, "failed")), MkError("NetworkError", 0))
    ELSE IF response.status = 200
         THEN IF s.rq.entry = "sendMessage"
              THEN [Short429Read(s, "got2xx") EXCEPT !.rq.pc = "parse"]
              ELSE [Short429Read(s, "got2xx") EXCEPT !.rq.evThis = 0, !.rq.pc = "retryStream"]
    ELSE RetryFailedSeen(s, response,
             EndpointCatch(Mark(Short429Read(s, "failed"), s.rq.waitMs),
                           MkError("RATE_LIMITED_AFTER_RETRY", 0)))

(* the account is marked although the re-issued call succeeded *)
OnRetryResponse_marksAnyway(s, response) ==
    IF response.net THEN EndpointCatch(s, MkError("NetworkError", 0))
    ELSE IF response.status = 200
         THEN IF s.rq.entry = "sendMessage"
              THEN [Short429Read(Mark(s, s.rq.waitMs), "got2xx") EXCEPT !.rq.pc = "parse"]
              ELSE [Short429Read(Mark(s, s.rq.waitMs), "got2xx") EXCEPT
                        !.rq.evThis = 0, !.rq.pc = "retryStream"]
    ELSE LET retryResetMs == parseResetTime(response)
         IN  EndpointCatch(Mark(s, IF retryResetMs > 0 THEN retryResetMs ELSE s.rq.waitMs),
                           MkError("RATE_LIMITED_AFTER_RETRY", 0))

(* the answer to the re-issued call after a short 429, streaming-handler.js *)
(* 147-165 and message-handler.js 150-171                                  *)
OnRetryResponse(s, response) ==
    IF response.net
    THEN EndpointCatch(NetSeen(Short429Read(s, "failed")), MkError("NetworkError", 0))
    ELSE IF response.status = 200
         THEN IF s.rq.entry = "sendMessage"
              THEN [Short429Read(s, "got2xx") EXCEPT !.rq.pc = "parse"]
              ELSE [Short429Read(s, "got2xx") EXCEPT !.rq.evThis = 0, !.rq.pc = "retryStream"]
    ELSE LET retryResetMs == parseResetTime(response)
         IN  RetryFailedSeen(s, response,
                 EndpointCatch(Mark(Short429Read(s, "failed"),
                                    IF retryResetMs > 0 THEN retryResetMs ELSE s.rq.waitMs),
                               MkError("RATE_LIMITED_AFTER_RETRY", 0)))

(* the answer to the re-fetch after an empty response, streaming-handler.js 212-251 *)
OnRefetchResponse(s, response) ==
    IF response.net THEN EndpointCatch(NetSeen(s), MkError("NetworkError", 0))
    ELSE IF response.status = 200
         THEN [s EXCEPT !.rq.emptyRetries = @ + 1, !.rq.evThis = 0, !.rq.pc = "stream"]
    ELSE IF response.status = 429
         THEN LET resetMs == parseResetTime(response)
                  out == EndpointCatch(Mark(s, resetMs),
                                       MkError("429 RESOURCE_EXHAUSTED during retry", 429))
              IN  IF resetMs > DEFAULT_COOLDOWN_MS THEN out
                  ELSE Short429Again(s, IF resetMs > 0 THEN resetMs ELSE DEFAULT_COOLDOWN_MS, out)
    ELSE IF response.status = 401
         THEN EndpointCatch([AuthSeen(s, ClearCaches(TokenRejected(s))) EXCEPT
                                 !.ob.a401.count = s.ob.a401.count],
                            MkError("401 AUTH_INVALID during retry", 401))
    ELSE IF response.status >= 500
         THEN [s EXCEPT !.rq.pc = "sleepRetry5xx", !.rq.timer = 1000]
    ELSE EndpointCatch(s, MkError("Empty response retry failed", response.status))

(* the answer to the second re-fetch, after a 5xx, streaming-handler.js 240-250 *)
OnRefetch2Response(s, response) ==
    IF response.net THEN EndpointCatch(NetSeen(s), MkError("NetworkError", 0))
    ELSE IF response.status = 200
         THEN [s EXCEPT !.rq.emptyRetries = @ + 1, !.rq.evThis = 0, !.rq.pc = "stream"]
    ELSE EndpointCatch(s, MkError("Empty response retry failed", response.status))

(* a sleep is over *)
Woken(s) ==
    CASE s.rq.pc = "sleepAll" ->
            NextAttempt([s EXCEPT !.pool = clearExpiredLimits(s.pool)])
      [] s.rq.pc = "sleepShort" -> IssueCall(s, "retryFetch")
      [] s.rq.pc = "sleep5xx" -> Http5xxSlept(s, NextEndpoint(s))
      [] s.rq.pc = "sleepBackoff" -> IssueCall(s, "refetch")
      [] s.rq.pc = "sleepRetry5xx" -> IssueCall(s, "refetch2")
      [] s.rq.pc = "sleepNetwork" ->
            NextAttempt([s EXCEPT !.pool = pickNext(s.pool, s.rq.model).pool])

SleepPcs == {"sleepAll", "sleepShort", "sleep5xx", "sleepBackoff", "sleepRetry5xx", "sleepNetwork"}

StreamPcs == {"stream", "retryStream"}

----------------------------------------------------------------------------
(* The stream adapter streamSSEResponse, consumed by yield* *)

(* one canonical event of the current response reaches the consumer *)
Yielded(s) ==
    [s EXCEPT !.rq.evThis = @ + 1,
              !.ob.yielded = IF Watched(s, "stream") /\ s.rq.evThis = 0 THEN Sat(@, 2) ELSE @,
              !.ob.emptyStreak = 0]

(* message_delta and message_stop close the response; the generator returns *)
Completed(s) ==
    Finish([s EXCEPT !.ob.stops = IF Watched(s, "stream") THEN Sat(@, 2) ELSE @,
                     !.ls[s.rq.model] = IF Watched(s, "sticky") THEN s.rq.account ELSE @],
           "ok", NoError)

(* the connection aborts: the adapter yields a terminal error event and ends *)
Aborted(s) ==
    LET y == Yielded(s)
    IN  Finish([y EXCEPT !.ob.errors = IF Watched(s, "stream") THEN Sat(@, 2) ELSE @],
               "errorEvent", NoError)

(* function* emitEmptyResponseFallback, streaming-handler.js 325-364 *)
emitEmptyResponseFallback(s) ==
    IF Watched(s, "stream")
    THEN [s EXCEPT !.ob.synth = Sat(@, 2),
                   !.ob.synthAfterYield = @ \/ s.ob.yielded > 0,
                   !.ob.synthStreak = s.ob.emptyStreak,
                   !.ob.stops = Sat(@, 2)]
    ELSE s

(* the observer of empty responses notes how the k-th consecutive empty  *)
(* stream of an endpoint was handled: out is the state the handler left  *)
EmptySeen(s, out) ==
    LET k == s.ob.e13.streak + 1
    IN  IF Watched(s, "empty")
        THEN [out EXCEPT !.ob.e13.streak = Sat(s.ob.e13.streak, MAX_EMPTY_RESPONSE_RETRIES + 1),
                         !.ob.e13.ok =
                             /\ @
                             /\ out.pool = s.pool
                             /\ IF k <= MAX_EMPTY_RESPONSE_RETRIES
                                THEN /\ out.rq.pc = "sleepBackoff"
                                     /\ out.rq.timer = 500 * (2 ^ (k - 1))
                                     /\ out.rq.account = s.rq.account
                                     /\ out.rq.ep = s.rq.ep
                                ELSE /\ out.rq.pc = "done"
                                     /\ out.rq.result = "ok"]
        ELSE out

(* catch (streamError) of an EmptyResponseError, streaming-handler.js 193-209, *)
(* and the stream of the re-issued call, line 155                             *)
EmptyHandled(s) ==
    LET s1 == [s EXCEPT !.ob.emptyStreak = IF Watched(s, "stream")
                                           THEN Sat(@, MAX_EMPTY_RESPONSE_RETRIES + 2) ELSE @]
    IN  IF s.rq.pc = "retryStream"
        THEN EndpointCatch(Short429Read(s1, "unreadable"), MkError("EmptyResponseError", 0))
        ELSE IF s1.rq.emptyRetries >= MAX_EMPTY_RESPONSE_RETRIES
             THEN Finish(emitEmptyResponseFallback(s1), "ok", NoError)
             ELSE [s1 EXCEPT !.rq.pc = "sleepBackoff",
                             !.rq.timer = 500 * (2 ^ s1.rq.emptyRetries)]

(* the adapter raises EmptyResponseError *)
EmptyRaised(s) ==
    EmptySeen(s, EmptyHandled(s))

(* sendMessage reads the body of a 2xx response: it returns the converted *)
(* message, or the read throws; message-handler.js 156-164 and 191-199    *)
Parsed(s, outcome) ==
    IF outcome = "ok"
    THEN Finish([s EXCEPT !.ls[s.rq.model] = IF Watched(s, "sticky") THEN s.rq.account ELSE @],
                "ok", NoError)
    ELSE EndpointCatch(Short429Read(s, "unreadable"), MkError(outcome, 0))

(* the adapter throws another error, streaming-handler.js 195-197 and 155 *)
StreamThrew(s, kind) ==
    EndpointCatch(Short429Read([s EXCEPT !.ob.emptyStreak = 0], "unreadable"), MkError(kind, 0))

----------------------------------------------------------------------------
(* Actions *)

St(r) == [pool |-> pool, rq |-> req[r], ob |-> obs[r], ls |-> lastSuccess, scenario |-> scenario]

(* the dispatch r receives the answer to its call *)
Answered(r, response) ==
    IF "marks" \in scenario.watch /\ ~response.net /\ response.status = 429
    THEN [St(r) EXCEPT !.ob.m26.got429 = TRUE]
    ELSE IF "order" \in scenario.watch
         THEN [St(r) EXCEPT !.ob.o29.inFlight = FALSE]
         ELSE St(r)

(* the entries of the rate-limit table that the handler which left s set *)
NewLimits(s) ==
    {am \in Accounts \X Models :
        /\ s.pool.rateLimits[am[1]][am[2]] > 0
        /\ s.pool.rateLimits[am[1]][am[2]] # pool.rateLimits[am[1]][am[2]]}

(* the observer of marks notes for whom the handler marked, and whether a *)
(* call of the attempt had answered 429                                   *)
MarksSeen(s) ==
    IF "marks" \in scenario.watch /\ NewLimits(s) # {}
    THEN [s.ob EXCEPT !.m26.marked = TRUE,
                      !.m26.ok = /\ @
                                 /\ s.ob.m26.got429
                                 /\ NewLimits(s) = {<<s.ob.m26.account, s.rq.model>>}]
    ELSE s.ob

(* The dispatch of a client that has gone has now resumed from the await it *)
(* was suspended at when the client went.                                   *)
Apply(r, s) ==
    /\ pool' = s.pool
    /\ req' = [req EXCEPT ![r] = s.rq]
    /\ obs' = [obs EXCEPT ![r] = IF s.ob.client = "gone"
                                 THEN [MarksSeen(s) EXCEPT !.client = "gone, resumed"]
                                 ELSE MarksSeen(s)]
    /\ lastSuccess' = s.ls
    /\ UNCHANGED <<started, scenario, wire>>

(* Synchronous code runs to completion: nothing interleaves with a dispatch *)
(* that stands at the head of its attempt loop.  A request takes the first  *)
(* idle slot.                                                               *)
CanRun(r) == \A q \in Requests \ {r} : req[q].pc # "loop"

Start(r) ==
    /\ req[r].pc = "idle"
    /\ CanRun(r)
    /\ scenario.overlap \/ \A q \in Requests : req[q].pc = "idle"
    /\ \A q \in Requests : q < r => req[q].pc # "idle"
    /\ started < scenario.requests
    /\ \E entry \in scenario.entries, m \in scenario.models, fb \in scenario.fallbacks :
          /\ req' = [req EXCEPT ![r] =
                        [IdleRq EXCEPT !.pc = "loop", !.entry = entry,
                                       !.model = m, !.origModel = m,
                                       !.fallbackEnabled = fb,
                                       !.maxAttempts = Max(MAX_RETRIES, getAccountCount(pool) + 1)]]
          /\ obs' = [obs EXCEPT ![r] = [IdleOb EXCEPT !.fb0 = fb]]
    /\ started' = started + 1
    /\ UNCHANGED <<pool, lastSuccess, scenario, wire>>

AttemptLoop(r) ==
    /\ req[r].pc = "loop"
    /\ Apply(r, LoopHead(St(r)))

ResolveToken(r) ==
    /\ req[r].pc = "resolve"
    /\ CanRun(r)
    /\ \E outcome \in scenario.resolves : Apply(r, Resolved(St(r), outcome))

FetchResponse(r) ==
    /\ req[r].pc = "fetch"
    /\ CanRun(r)
    /\ \E response \in scenario.responses : Apply(r, OnResponse(Answered(r, response), response))

RetryResponse(r) ==
    /\ req[r].pc = "retryFetch"
    /\ CanRun(r)
    /\ \E response \in scenario.responses : Apply(r, OnRetryResponse(Answered(r, response), response))

RefetchResponse(r) ==
    /\ req[r].pc = "refetch"
    /\ CanRun(r)
    /\ \E response \in scenario.responses : Apply(r, OnRefetchResponse(Answered(r, response), response))

Refetch2Response(r) ==
    /\ req[r].pc = "refetch2"
    /\ CanRun(r)
    /\ \E response \in scenario.responses : Apply(r, OnRefetch2Response(Answered(r, response), response))

ParseResponse(r) ==
    /\ req[r].pc = "parse"
    /\ CanRun(r)
    /\ \E outcome \in {"ok"} \cup scenario.throws : Apply(r, Parsed(St(r), outcome))

StreamEvent(r) ==
    /\ req[r].pc \in StreamPcs
    /\ CanRun(r)
    /\ req[r].evThis < MaxEvents
    /\ Apply(r, Yielded(St(r)))

StreamComplete(r) ==
    /\ req[r].pc \in StreamPcs
    /\ CanRun(r)
    /\ req[r].evThis >= 1
    /\ Apply(r, Completed(St(r)))

StreamAbort(r) ==
    /\ req[r].pc \in StreamPcs
    /\ CanRun(r)
    /\ Apply(r, Aborted(St(r)))

StreamEmpty(r) ==
    /\ req[r].pc \in StreamPcs
    /\ CanRun(r)
    /\ req[r].evThis = 0
    /\ Apply(r, EmptyRaised(St(r)))

StreamThrow(r) ==
    /\ req[r].pc \in StreamPcs
    /\ CanRun(r)
    /\ \E kind \in scenario.throws : Apply(r, StreamThrew(St(r), kind))

Wake(r) ==
    /\ req[r].pc \in SleepPcs
    /\ CanRun(r)
    /\ req[r].timer = 0
    /\ Apply(r, Woken(St(r)))

(* the caller has taken the outcome; the slot serves the next request *)
Close(r) ==
    /\ req[r].pc = "done"
    /\ CanRun(r)
    /\ req' = [req EXCEPT ![r] = IdleRq]
    /\ obs' = [obs EXCEPT ![r] = IdleOb]
    /\ UNCHANGED <<pool, lastSuccess, started, scenario, wire>>

(* The client of a streaming request disconnects while the dispatch is      *)
(* suspended at an await.  Neither sendMessageStream nor the consumer of    *)
(* its events listens for it: the dispatch goes on as before.               *)
ClientDisconnects(r) ==
    /\ "cancel" \in scenario.watch
    /\ req[r].pc \notin {"idle", "loop", "done"}
    /\ CanRun(r)
    /\ obs[r].client = "connected"
    /\ obs' = [obs EXCEPT ![r].client = "gone"]
    /\ UNCHANGED <<pool, req, lastSuccess, started, scenario, wire>>

Sleepers == {r \in Requests : req[r].pc \in SleepPcs}

(* A timer fires at or after its delay: the clock moves in steps of ClockStepMs *)
RoundUp(d) == ((d + ClockStepMs - 1) \div ClockStepMs) * ClockStepMs

(* time passes: up to the end of the next sleep, or one step while nobody sleeps *)
TimePasses ==
    /\ \A r \in Requests : req[r].pc # "loop"
    /\ \A r \in Sleepers : req[r].timer > 0
    /\ Sleepers = {} =>
          /\ \A r \in Requests : req[r].pc = "idle"
          /\ \E a \in Accounts, m \in Models : pool.rateLimits[a][m] > 0
    /\ LET d == IF Sleepers # {}
                THEN RoundUp(SetMin({req[r].timer : r \in Sleepers}))
                ELSE ClockStepMs
       IN  /\ pool' = Elapsed(pool, d)
           /\ req' = [r \in Requests |->
                        IF r \in Sleepers THEN [req[r] EXCEPT !.timer = Max(0, @ - d)]
                        ELSE req[r]]
    /\ UNCHANGED <<obs, lastSuccess, started, scenario, wire>>

----------------------------------------------------------------------------
(* Request builder: buildCloudCodeRequest and buildHeaders.  A text is a    *)
(* sequence of symbols, so that prefixing and joining are concatenations.   *)

MaxTextLen == 2
MaxBlocks == 2

LF == "\n"

TextSymbols == {"x", LF}

Texts == UNION {[1..n -> TextSymbols] : n \in 0..MaxTextLen}

(* The identity preamble, abridged to the tags of its sections.             *)
ANTIGRAVITY_SYSTEM_INSTRUCTION ==
    <<"<identity>", LF, "</identity>", LF, LF,
      "<tool_calling>", LF, "</tool_calling>", LF, LF,
      "<web_application_development>", LF, "</web_application_development>", LF,
      "<ephemeral_message>", LF, "</ephemeral_message>", LF, LF, LF,
      "<communication_style>", LF, "</communication_style>">>

ANTIGRAVITY_HEADERS ==
    ("User-Agent" :> "antigravity/1.11.5 os/arch") @@
    ("X-Goog-Api-Client" :> "google-cloud-sdk vscode_cloudshelleditor/0.1") @@
    ("Client-Metadata" :> "{ideType, platform, pluginType}")

ModelNames ==
    {<<"claude", "opus", "4", "5", "thinking">>,
     <<"claude", "sonnet", "4", "5">>,
     <<"Claude", "Opus", "4", "5", "Thinking">>,
     <<"gemini", "3", "pro", "high">>,
     <<"gemini", "2.5", "flash">>,
     <<"gemini", "2.5", "flash", "thinking">>,
     <<"gemini", "pro", "gemini", "3">>,
     <<"claude", "gemini", "3">>,
     <<"gpt", "4">>,
     <<>>}

(* The caller's system field: absent, a string, or a list of text blocks.   *)
NoSystem == [type |-> "undefined"]

Systems ==
    {NoSystem}
    \cup {[type |-> "string", text |-> t] : t \in Texts}
    \cup {[type |-> "blocks", blocks |-> b] :
             b \in UNION {[1..n -> {[type |-> "text", text |-> t] : t \in Texts}] :
                             n \in 0..MaxBlocks}}

NoInstruction == [defined |-> FALSE, parts |-> <<>>]

(* The system field as convertAnthropicToGoogle hands it on: one part for   *)
(* a string, one part per text block for a list.                            *)
convertAnthropicToGoogle(anthropicRequest) ==
    LET system == anthropicRequest.system
    IN  [systemInstruction |->
            CASE system.type = "string" /\ system.text # <<>> ->
                    [defined |-> TRUE, parts |-> <<[text |-> system.text]>>]
              [] system.type = "blocks" /\ system.blocks # <<>> ->
                    [defined |-> TRUE,
                     parts |-> [i \in DOMAIN system.blocks |->
                                   [text |-> system.blocks[i].text]]]
              [] OTHER -> NoInstruction]

(* parts.map(p => p.text || '').filter(t => t).join('\n')                   *)
RECURSIVE join(_, _)
join(texts, separator) ==
    IF texts = <<>> THEN <<>>
    ELSE IF Len(texts) = 1 THEN Head(texts)
    ELSE Head(texts) \o separator \o join(Tail(texts), separator)

existingTextOf(parts) ==
    join(SelectSeq([i \in DOMAIN parts |-> parts[i].text], LAMBDA t : t # <<>>), <<LF>>)

RequestIds == {"agent-uuid-1", "agent-uuid-2"}

buildCloudCodeRequest_singleLineFeed(anthropicRequest, projectId, uuid) ==
    LET googleRequest == convertAnthropicToGoogle(anthropicRequest)
        existingText ==
            IF googleRequest.systemInstruction.defined
            THEN existingTextOf(googleRequest.systemInstruction.parts)
            ELSE <<>>
        systemInstructionText ==
            IF existingText # <<>>
            THEN ANTIGRAVITY_SYSTEM_INSTRUCTION \o <<LF>> \o existingText
            ELSE ANTIGRAVITY_SYSTEM_INSTRUCTION
    IN  [project |-> projectId,
         model |-> anthropicRequest.model,
         request |-> [systemInstruction |->
                         [role |-> "user",
                          parts |-> <<[text |-> systemInstructionText]>>]],
         userAgent |-> "antigravity",
         requestType |-> "agent",
         requestId |-> uuid]

buildCloudCodeRequest(anthropicRequest, projectId, uuid) ==
    LET googleRequest == convertAnthropicToGoogle(anthropicRequest)
        existingText ==
            IF googleRequest.systemInstruction.defined
            THEN existingTextOf(googleRequest.systemInstruction.parts)
            ELSE <<>>
        systemInstructionText ==
            IF existingText # <<>>
            THEN ANTIGRAVITY_SYSTEM_INSTRUCTION \o <<LF, LF>> \o existingText
            ELSE ANTIGRAVITY_SYSTEM_INSTRUCTION
    IN  [project |-> projectId,
         model |-> anthropicRequest.model,
         request |-> [systemInstruction |->
                         [role |-> "user",
                          parts |-> <<[text |-> systemInstructionText]>>]],
         userAgent |-> "antigravity",
         requestType |-> "agent",
         requestId |-> uuid]

(* An argument left out takes the default of the parameter.                 *)
Undefined == "undefined"

AcceptTypes == {Undefined, "application/json", "text/event-stream"}

Tokens == {"ya29.a", "ya29.b"}

(* An object literal: a later key replaces an earlier one.                  *)
set(headers, name, value) == (name :> value) @@ headers

buildHeaders_anyThinkingModel(token, model, acceptArg) ==
    LET accept == IF acceptArg = Undefined THEN "application/json" ELSE acceptArg
        headers0 == ANTIGRAVITY_HEADERS @@
                    ("Content-Type" :> "application/json") @@
                    ("Authorization" :> <<"Bearer ", token>>)
        headers1 == IF isThinkingModel(model)
                    THEN set(headers0, "anthropic-beta", "interleaved-thinking-2025-05-14")
                    ELSE headers0
    IN  IF accept # "application/json" THEN set(headers1, "Accept", accept) ELSE headers1

buildHeaders(token, model, acceptArg) ==
    LET accept == IF acceptArg = Undefined THEN "application/json" ELSE acceptArg
        headers0 == ANTIGRAVITY_HEADERS @@
                    ("Content-Type" :> "application/json") @@
                    ("Authorization" :> <<"Bearer ", token>>)
        modelFamily == getModelFamily(model)
        headers1 == IF modelFamily = "claude" /\ isThinkingModel(model)
                    THEN set(headers0, "anthropic-beta", "interleaved-thinking-2025-05-14")
                    ELSE headers0
    IN  IF accept # "application/json" THEN set(headers1, "Accept", accept) ELSE headers1

(* What the builders were given and what they have built so far.           *)
NoWire == [inputs |-> <<>>, built |-> {}, payload |-> <<>>, headers |-> <<>>]

----------------------------------------------------------------------------
(* Initial states *)

InitPool(n) ==
    [size |-> n,
     rateLimits |-> [a \in Accounts |-> [m \in Models |-> Free]],
     sticky |-> [m \in Models |-> NoAccount],
     currentIndex |-> 0,
     tokenCache |-> [a \in Accounts |-> FALSE],
     projectCache |-> [a \in Accounts |-> FALSE]]

ResolveOutcomes == {"ok", "AuthError", "NetworkError"}

ThrownKinds == {"NetworkError", "StreamError"}

Entries == {"sendMessageStream", "sendMessage"}

Scenario(observers, overlap, requests, entries, models, fallbacks, responses, resolves, throws) ==
    [watch |-> observers, overlap |-> overlap, requests |-> requests,
     entries |-> entries, models |-> models, fallbacks |-> fallbacks,
     responses |-> responses, resolves |-> resolves, throws |-> throws]

InitWith(sc) ==
    /\ \E n \in 0..MaxPool : pool = InitPool(n)
    /\ req = [r \in Requests |-> IdleRq]
    /\ obs = [r \in Requests |-> IdleOb]
    /\ lastSuccess = [m \in Models |-> NoAccount]
    /\ started = 0
    /\ scenario = sc
    /\ wire = NoWire

FallbackResponses ==
    {HttpResponse(200, 0), HttpResponse(400, 0), HttpResponse(429, ShortResetMs),
     HttpResponse(429, LongResetMs), HttpResponse(500, 0), FetchFailed}

Init ==
    InitWith(Scenario({"fallback"}, FALSE, MaxRequests, Entries, RequestModels, BOOLEAN,
                      FallbackResponses, {"ok"}, {"StreamError"}))

Next ==
    \/ \E r \in Requests : Start(r)
    \/ \E r \in Requests : AttemptLoop(r)
    \/ \E r \in Requests : ResolveToken(r)
    \/ \E r \in Requests : FetchResponse(r)
    \/ \E r \in Requests : RetryResponse(r)
    \/ \E r \in Requests : RefetchResponse(r)
    \/ \E r \in Requests : Refetch2Response(r)
    \/ \E r \in Requests : ParseResponse(r)
    \/ \E r \in Requests : StreamEvent(r)
    \/ \E r \in Requests : StreamComplete(r)
    \/ \E r \in Requests : StreamAbort(r)
    \/ \E r \in Requests : StreamEmpty(r)
    \/ \E r \in Requests : StreamThrow(r)
    \/ \E r \in Requests : Wake(r)
    \/ \E r \in Requests : Close(r)
    \/ TimePasses

Spec == Init /\ [][Next]_vars

----------------------------------------------------------------------------
(* C4: a request starts at most one fallback-model dispatch, and the       *)
(* fallback dispatch runs for the mapped model with fallback disabled, so  *)
(* that neither trigger (long wait, exhausted attempts) can start another. *)
C4_AtMostOneFallback ==
    \A r \in Requests :
        /\ obs[r].hops <= 1
        /\ obs[r].hops = 1 =>
              /\ ~req[r].fallbackEnabled
              /\ req[r].model = getFallbackModel(req[r].origModel)

(* a fallback dispatch that itself ran out of attempts *)
C4_Witness ==
    \E r \in Requests :
        /\ obs[r].hops = 1
        /\ req[r].pc = "done"
        /\ req[r].error.kind = "Max retries exceeded"

(* C10: when an attempt finds every account limited with a minimum wait    *)
(* above 120 000 ms, the dispatch either hands over to exactly one         *)
(* fallback dispatch (fallback enabled and a mapping exists) or fails at   *)
(* once with RESOURCE_EXHAUSTED carrying the model and the reset instant   *)
(* now + w; the attempt neither sleeps nor issues an upstream call.        *)
C10_LongWait ==
    \A r \in Requests : \A h \in 0..1 :
        LET l == obs[r].lw[h]
        IN  l.seen /\ l.w > MAX_WAIT_BEFORE_ERROR_MS =>
              /\ ~obs[r].lwCall
              /\ IF l.fb
                 THEN /\ h = 0
                      /\ obs[r].hops = 1
                      /\ req[r].model = getFallbackModel(l.model)
                      /\ ~req[r].fallbackEnabled
                 ELSE /\ obs[r].hops = h
                      /\ req[r].pc = "done"
                      /\ req[r].result = "error"
                      /\ req[r].error.kind = "RESOURCE_EXHAUSTED"
                      /\ req[r].error.model = l.model
                      /\ req[r].error.resetTime = l.w

(* the long wait of the primary dispatch handed over to a fallback dispatch, *)
(* which completed a response                                                *)
C10_Witness ==
    \E r \in Requests :
        /\ obs[r].lw[0].seen
        /\ obs[r].lw[0].fb
        /\ req[r].pc = "done"
        /\ req[r].result = "ok"

(* C14: a request made with fallbackEnabled = false issues every upstream  *)
(* call and makes every pool operation (available accounts, sticky,        *)
(* pickNext, markRateLimited) for the model it was made for, and starts no *)
(* dispatch for another model.                                             *)
C14_NoFallbackWhenDisabled ==
    \A r \in Requests :
        req[r].pc # "idle" /\ ~obs[r].fb0 =>
            /\ req[r].model = req[r].origModel
            /\ obs[r].models \subseteq {req[r].origModel}
            /\ obs[r].hops = 0

(* a request without fallback, for a model that has a fallback model, that *)
(* found every account limited for more than 120 000 ms after its calls    *)
C14_Witness ==
    \E r \in Requests :
        /\ ~obs[r].fb0
        /\ getFallbackModel(req[r].origModel) # NoModel
        /\ obs[r].models = {req[r].origModel}
        /\ req[r].pc = "done"
        /\ req[r].error.kind = "RESOURCE_EXHAUSTED"

----------------------------------------------------------------------------
(* What the consumer of one request sees of its stream *)

StreamResponses ==
    {HttpResponse(200, 0), HttpResponse(401, 0), HttpResponse(429, ShortResetMs),
     HttpResponse(500, 0), FetchFailed}

InitStream ==
    InitWith(Scenario({"stream"}, FALSE, MaxRequests, {"sendMessageStream"}, RequestModels, BOOLEAN,
                      StreamResponses, {"ok"}, ThrownKinds))

NextStream ==
    \/ \E r \in Requests : Start(r)
    \/ \E r \in Requests : AttemptLoop(r)
    \/ \E r \in Requests : ResolveToken(r)
    \/ \E r \in Requests : FetchResponse(r)
    \/ \E r \in Requests : RetryResponse(r)
    \/ \E r \in Requests : RefetchResponse(r)
    \/ \E r \in Requests : Refetch2Response(r)
    \/ \E r \in Requests : StreamEvent(r)
    \/ \E r \in Requests : StreamComplete(r)
    \/ \E r \in Requests : StreamAbort(r)
    \/ \E r \in Requests : StreamEmpty(r)
    \/ \E r \in Requests : StreamThrow(r)
    \/ \E r \in Requests : Wake(r)
    \/ \E r \in Requests : Close(r)
    \/ TimePasses

SpecStream == InitStream /\ [][NextStream]_vars

(* C1: once sendMessageStream has yielded an event of an upstream response *)
(* it issues no further upstream call and yields no event of a second      *)
(* response, and the stream ends with message_stop or with exactly one     *)
(* terminal error.                                                         *)
C1_StreamingAtomicity ==
    \A r \in Requests :
        obs[r].yielded > 0 =>
            /\ ~obs[r].callsAfterYield
            /\ obs[r].yielded = 1
            /\ req[r].pc = "done" => obs[r].stops + obs[r].errors = 1

(* C7: the synthetic message is emitted at most once per request, only     *)
(* after MAX_EMPTY_RESPONSE_RETRIES + 1 consecutive streams ended with the *)
(* EmptyResponse condition, and never after an event of an upstream        *)
(* response has been yielded.                                              *)
C7_EmptyResponseCap ==
    \A r \in Requests :
        /\ obs[r].synth <= 1
        /\ obs[r].synth >= 1 =>
              /\ obs[r].synthStreak >= MAX_EMPTY_RESPONSE_RETRIES + 1
              /\ ~obs[r].synthAfterYield

(* C8: sendMessageStream never ends by throwing the adapter's              *)
(* EmptyResponse error to its caller.                                      *)
C8_EmptyResponseRecovered ==
    \A r \in Requests :
        req[r].pc = "done" /\ req[r].result = "error" => ~isEmptyResponseError(req[r].error)

----------------------------------------------------------------------------
(* The upstream calls of one request *)

InitCalls ==
    InitWith(Scenario({"calls"}, FALSE, MaxRequests, Entries, RequestModels, BOOLEAN,
                      StreamResponses, {"ok"}, ThrownKinds))

SpecCalls == InitCalls /\ [][Next]_vars

(* C2: one client request issues at most                                   *)
(* max(MAX_RETRIES, poolSize + 1) * endpoints + 1 upstream calls, counting *)
(* the re-issue after a short 429, the re-fetches after an empty response  *)
(* and the calls of a fallback dispatch.                                   *)
C2_RetryBound ==
    \A r \in Requests :
        obs[r].calls <= Max(MAX_RETRIES, getAccountCount(pool) + 1) * NumEndpoints + 1

----------------------------------------------------------------------------
(* Concurrent dispatches over the shared pool *)

MaxOverlapped == 2

ConcResponses == {HttpResponse(200, 0), HttpResponse(429, LongResetMs)}

InitConc ==
    InitWith(Scenario({"limits"}, TRUE, MaxOverlapped, Entries, {"gemini-3-pro-high"}, {FALSE},
                      ConcResponses, {"ok"}, {}))

NextConc ==
    \/ \E r \in Requests : Start(r)
    \/ \E r \in Requests : AttemptLoop(r)
    \/ \E r \in Requests : ResolveToken(r)
    \/ \E r \in Requests : FetchResponse(r)
    \/ \E r \in Requests : RefetchResponse(r)
    \/ \E r \in Requests : ParseResponse(r)
    \/ \E r \in Requests : StreamEvent(r)
    \/ \E r \in Requests : StreamComplete(r)
    \/ \E r \in Requests : StreamAbort(r)
    \/ \E r \in Requests : StreamEmpty(r)
    \/ \E r \in Requests : Wake(r)
    \/ \E r \in Requests : Close(r)
    \/ TimePasses

SpecConc == InitConc /\ [][NextConc]_vars

(* C3: in every interleaving of concurrent dispatches, no upstream call    *)
(* for a model is issued with an account whose rate-limit state for that   *)
(* model is limited-until(T) while the current time is before T.           *)
C3_NoCallWhileLimited ==
    \A r \in Requests : ~obs[r].limitedCall

----------------------------------------------------------------------------
(* Consecutive requests for one model and the sticky account *)

MaxStickyRequests == 3

StickyResponses ==
    {HttpResponse(200, 0), HttpResponse(401, 0), HttpResponse(429, ShortResetMs),
     HttpResponse(500, 0)}

InitSticky ==
    InitWith(Scenario({"sticky"}, FALSE, MaxStickyRequests, Entries, {"gemini-3-pro-high"}, {FALSE},
                      StickyResponses, {"ok"}, {"StreamError"}))

SpecSticky == InitSticky /\ [][Next]_vars

(* C5: when the account of the last successful dispatch for a model is     *)
(* free for that model, the next dispatch for the model selects it for its *)
(* first upstream call, whatever failed requests happened in between.      *)
C5_StickyPreserved ==
    \A r \in Requests :
        obs[r].expect # NoAccount => obs[r].firstSel = obs[r].expect

(* C6: the sticky account of a model changes only in a step that marks it *)
(* limited for that model.                                                 *)
C6_StickyChangesOnlyOnLimit ==
    [][\A m \in Models :
          (pool.sticky[m] # NoAccount /\ pool'.sticky[m] # pool.sticky[m])
              => IsLimited(pool', pool.sticky[m], m)]_vars

----------------------------------------------------------------------------
(* The wait of a dispatch that finds every account limited *)

InitWait ==
    InitWith(Scenario({"waits"}, FALSE, MaxRequests, Entries, RequestModels, BOOLEAN,
                      StreamResponses, {"ok"}, ThrownKinds))

SpecWait == InitWait /\ [][Next]_vars

(* C9: a dispatch that found every account limited with a minimum wait of  *)
(* at most 120 000 ms and slept goes on to select an account and issue an  *)
(* upstream call, at whatever attempt index the wait happened: it does not *)
(* end with an error while the wait is the last thing it did.              *)
C9_WaitThenProceeds ==
    \A r \in Requests :
        req[r].pc = "done" /\ req[r].result = "error" => obs[r].sinceWait # "waited"

----------------------------------------------------------------------------
(* The long 429 and the account that follows it *)

Long429Responses ==
    {HttpResponse(200, 0), HttpResponse(429, MidResetMs), HttpResponse(429, LongResetMs)}

MaxLong429Requests == 2

InitLong429 ==
    InitWith(Scenario({"long429"}, FALSE, MaxLong429Requests, Entries, {"gemini-3-pro-high"}, BOOLEAN,
                      Long429Responses, {"ok"}, {}))

SpecLong429 == InitLong429 /\ [][NextConc]_vars

(* C11 as stated: after a 429 with resetMs > 10 000 ms the account is       *)
(* marked limited for the model for resetMs, no further endpoint is called *)
(* with it in that attempt, and the next upstream call of the dispatch     *)
(* uses a different, free account.                                         *)
C11_Long429_AsStated ==
    \A r \in Requests :
        LET q == obs[r].q429
        IN  /\ q.state # "none" => q.markedFor = q.resetMs
            /\ q.state = "called" => ~q.sameAttempt /\ q.callAcct = q.nextAcct
            /\ q.state \in {"selected", "called"} =>
                  q.nextFree /\ q.nextAcct # q.account

(* C11: after a 429 with resetMs > 10 000 ms the account is marked limited *)
(* for the model of the dispatch for resetMs, no further endpoint is       *)
(* called with it in that attempt, and the account the dispatch selects    *)
(* next is free for the model it is selected for, and is the one the next  *)
(* upstream call uses; it is the marked account again only when the limit  *)
(* has expired while the dispatch waited or when the selection is made by  *)
(* the fallback dispatch for another model.                                *)
C11_Long429 ==
    \A r \in Requests :
        LET q == obs[r].q429
        IN  /\ q.state # "none" => q.markedFor = q.resetMs
            /\ q.state = "called" => ~q.sameAttempt /\ q.callAcct = q.nextAcct
            /\ q.state \in {"selected", "called"} =>
                  /\ q.nextFree
                  /\ q.nextAcct = q.account => q.expired \/ q.nextModel # q.model

(* account A was marked after a long 429 and the next call went to another account *)
C11_Witness ==
    \E r \in Requests :
        LET q == obs[r].q429
        IN  /\ q.state = "called"
            /\ q.callAcct # q.account
            /\ req[r].pc = "done"
            /\ req[r].result = "ok"

----------------------------------------------------------------------------
(* The short 429 and the call that is re-issued for it *)

Short429Responses ==
    {HttpResponse(200, 0), HttpResponse(429, 0), HttpResponse(429, ShortResetMs),
     HttpResponse(500, 0)}

InitShort429 ==
    InitWith(Scenario({"calls", "short429"}, FALSE, MaxRequests, Entries, {"gemini-3-pro-high"}, {FALSE},
                      Short429Responses, {"ok"}, {"StreamError"}))

SpecShort429 == InitShort429 /\ [][Next]_vars

(* the request of the short 429 has issued two calls, both to the endpoint *)
(* and account of the 429, and the account's rate-limit state for the      *)
(* model and the sticky accounts are what they were at the 429             *)
Short429Frame(r) ==
    LET t == obs[r].s429
    IN  /\ obs[r].calls = 2
        /\ t.reAcct = t.account
        /\ t.reEp = t.ep
        /\ pool.rateLimits[t.account][req[r].model] = t.limit
        /\ pool.sticky = t.sticky
        /\ req[r].pc = "done" => req[r].result # "error"

----------------------------------------------------------------------------
(* The streams that end with the EmptyResponse condition *)

EmptyResponses ==
    {HttpResponse(200, 0), HttpResponse(429, ShortResetMs), HttpResponse(500, 0)}

InitEmpty ==
    InitWith(Scenario({"empty"}, FALSE, MaxRequests, {"sendMessageStream"}, {"gemini-3-pro-high"},
                      {FALSE}, EmptyResponses, {"ok"}, {"StreamError"}))

SpecEmpty == InitEmpty /\ [][NextStream]_vars

(* C13: a 2xx stream that ends with the EmptyResponse condition is         *)
(* re-fetched from the same endpoint with the same account after 500 ms,   *)
(* and after 1 000 ms when the stream is empty again, with at most         *)
(* MAX_EMPTY_RESPONSE_RETRIES re-fetches; the third empty stream ends the  *)
(* request normally with the synthetic message; no empty stream switches   *)
(* the endpoint or the account or marks the account limited.               *)
C13_EmptyRetrySequence ==
    \A r \in Requests :
        /\ obs[r].e13.ok
        /\ obs[r].e13.refetches <= MAX_EMPTY_RESPONSE_RETRIES

----------------------------------------------------------------------------
(* The 4xx answers other than 401 and 429 *)

BadRequestResponses ==
    {HttpResponse(200, 0), HttpResponse(400, 0), HttpResponse(429, ShortResetMs),
     HttpResponse(500, 0)}

InitBad ==
    InitWith(Scenario({"bad"}, FALSE, MaxRequests, Entries, {"gemini-3-pro-high"}, {FALSE},
                      BadRequestResponses, {"ok"}, {"StreamError"}))

SpecBad == InitBad /\ [][Next]_vars

(* C15: when an endpoint answers a 4xx other than 401 and 429, the         *)
(* dispatch ends by surfacing that status to the caller: whatever later    *)
(* endpoints and attempts answer, the request ends with the error of that  *)
(* status, not with a success or another error.                            *)
C15_BadRequestSurfaces ==
    \A r \in Requests :
        obs[r].bad.seen /\ req[r].pc = "done" =>
            /\ req[r].result = "error"
            /\ req[r].error.kind = "API error"
            /\ req[r].error.status = obs[r].bad.status

----------------------------------------------------------------------------
(* The client that disconnects *)

CancelResponses ==
    {HttpResponse(200, 0), HttpResponse(401, 0), HttpResponse(429, ShortResetMs),
     HttpResponse(500, 0)}

InitCancel ==
    InitWith(Scenario({"cancel"}, FALSE, MaxRequests, {"sendMessageStream"}, {"gemini-3-pro-high"},
                      {FALSE}, CancelResponses, {"ok"}, {"StreamError"}))

NextCancel ==
    \/ NextStream
    \/ \E r \in Requests : ClientDisconnects(r)

SpecCancel == InitCancel /\ [][NextCancel]_vars

(* C16: once the client has disconnected and the dispatch has resumed from *)
(* the await it was suspended at (upstream call, sleep, token resolution,  *)
(* awaiting a chunk), the dispatch issues no new upstream call: no further *)
(* endpoint, attempt, re-fetch or fallback dispatch.                       *)
C16_NoCallAfterDisconnect ==
    \A r \in Requests : ~obs[r].callAfterGone

----------------------------------------------------------------------------
(* Termination of a dispatch whose awaits all complete *)

LiveResponses ==
    {HttpResponse(200, 0), HttpResponse(429, ShortResetMs), HttpResponse(429, LongResetMs),
     HttpResponse(500, 0), FetchFailed}

InitLive ==
    InitWith(Scenario({"fallback", "live"}, FALSE, MaxRequests, Entries, {"gemini-3-pro-high"},
                      BOOLEAN, LiveResponses, {"ok"}, {"StreamError"}))

(* a step of the dispatch r: an await of r completes *)
Resumes(r) ==
    \/ AttemptLoop(r)
    \/ ResolveToken(r)
    \/ FetchResponse(r)
    \/ RetryResponse(r)
    \/ RefetchResponse(r)
    \/ Refetch2Response(r)
    \/ ParseResponse(r)
    \/ StreamEvent(r)
    \/ StreamComplete(r)
    \/ StreamAbort(r)
    \/ StreamEmpty(r)
    \/ StreamThrow(r)
    \/ Wake(r)

(* every upstream call, token and project resolution, read of a response *)
(* and sleep completes                                                   *)
AwaitsComplete ==
    /\ \A r \in Requests : WF_vars(Resumes(r))
    /\ WF_vars(TimePasses)

SpecLive == InitLive /\ [][Next]_vars /\ AwaitsComplete

(* the attempt loops of a request ran at most N iterations each, and no *)
(* rate-limit sleep was longer than 120 500 ms                          *)
Bounded ==
    \A r \in Requests :
        /\ \A h \in 0..1 : obs[r].iters[h] <= Max(MAX_RETRIES, getAccountCount(pool) + 1)
        /\ ~obs[r].longSleep

(* C17: when every upstream call, token and project resolution and sleep   *)
(* completes, every call of sendMessage and sendMessageStream eventually   *)
(* returns or throws; the primary attempt loop runs at most                *)
(* N = max(MAX_RETRIES, poolSize + 1) iterations, a fallback dispatch at   *)
(* most N more, and no rate-limit sleep is longer than 120 500 ms.         *)
C17_Termination ==
    /\ []Bounded
    /\ \A r \in Requests : (req[r].pc # "idle") ~> (req[r].pc = "done")

(* a request whose primary and fallback attempt loops both ran N times *)
C17_Witness ==
    \E r \in Requests :
        /\ req[r].pc = "done"
        /\ \A h \in 0..1 : obs[r].iters[h] = Max(MAX_RETRIES, getAccountCount(pool) + 1)

----------------------------------------------------------------------------
(* The request builder on its own: the inputs are drawn at the start and    *)
(* each builder is applied to them.                                         *)

ProjectIds == {"rising-fact-p41fc"}

InitBuilder(inputs) ==
    /\ pool = InitPool(0)
    /\ req = [r \in Requests |-> IdleRq]
    /\ obs = [r \in Requests |-> IdleOb]
    /\ lastSuccess = [m \in Models |-> NoAccount]
    /\ started = 0
    /\ scenario = Scenario({}, FALSE, 0, {}, {}, {}, {}, {}, {})
    /\ wire = [NoWire EXCEPT !.inputs = inputs]

InitRequest ==
    \E system \in Systems, model \in ModelNames, projectId \in ProjectIds :
        InitBuilder([anthropicRequest |-> [model |-> model, system |-> system],
                     projectId |-> projectId])

BuildCloudCodeRequest ==
    /\ "payload" \notin wire.built
    /\ \E uuid \in RequestIds :
          wire' = [wire EXCEPT !.built = @ \cup {"payload"},
                               !.payload = buildCloudCodeRequest(wire.inputs.anthropicRequest,
                                                                 wire.inputs.projectId, uuid)]
    /\ UNCHANGED <<pool, req, obs, lastSuccess, started, scenario>>

NextRequest == BuildCloudCodeRequest

SpecRequest == InitRequest /\ [][NextRequest]_vars

RECURSIVE CallerSystemText(_)
CallerSystemText(blocks) ==
    IF blocks = <<>> THEN <<>>
    ELSE LET first == Head(blocks).text
             rest == CallerSystemText(Tail(blocks))
         IN  IF first = <<>> THEN rest
             ELSE IF rest = <<>> THEN first
             ELSE first \o <<LF>> \o rest

SystemTextOf(system) ==
    CASE system.type = "string" -> system.text
      [] system.type = "blocks" -> CallerSystemText(system.blocks)
      [] OTHER -> <<>>

StartsWith(text, prefix) ==
    /\ Len(text) >= Len(prefix)
    /\ SubSeq(text, 1, Len(prefix)) = prefix

(* C18: the payload's systemInstruction has role "user" and exactly one     *)
(* part; its text begins with the identity preamble verbatim; a non-empty   *)
(* system text of the caller follows the preamble after a blank line, and   *)
(* otherwise the text is exactly the preamble.                              *)
C18_IdentityPreamble ==
    "payload" \in wire.built =>
        LET systemInstruction == wire.payload.request.systemInstruction
            text == systemInstruction.parts[1].text
            callerText == SystemTextOf(wire.inputs.anthropicRequest.system)
        IN  /\ systemInstruction.role = "user"
            /\ Len(systemInstruction.parts) = 1
            /\ StartsWith(text, ANTIGRAVITY_SYSTEM_INSTRUCTION)
            /\ IF callerText # <<>>
               THEN text = ANTIGRAVITY_SYSTEM_INSTRUCTION \o <<LF, LF>> \o callerText
               ELSE text = ANTIGRAVITY_SYSTEM_INSTRUCTION

C18_Witness ==
    /\ "payload" \in wire.built
    /\ wire.inputs.anthropicRequest.system.type = "blocks"
    /\ Len(wire.inputs.anthropicRequest.system.blocks) = 2
    /\ \A i \in 1..2 : wire.inputs.anthropicRequest.system.blocks[i].text # <<>>
    /\ Len(wire.payload.request.systemInstruction.parts[1].text)
          > Len(ANTIGRAVITY_SYSTEM_INSTRUCTION) + 2

InitHeaders ==
    \E token \in Tokens, model \in ModelNames, accept \in AcceptTypes :
        InitBuilder([token |-> token, model |-> model, accept |-> accept])

BuildHeaders ==
    /\ "headers" \notin wire.built
    /\ wire' = [wire EXCEPT !.built = @ \cup {"headers"},
                            !.headers = buildHeaders(wire.inputs.token, wire.inputs.model,
                                                     wire.inputs.accept)]
    /\ UNCHANGED <<pool, req, obs, lastSuccess, started, scenario>>

NextHeaders == BuildHeaders

SpecHeaders == InitHeaders /\ [][NextHeaders]_vars

(* C19: anthropic-beta: interleaved-thinking-2025-05-14 is among the        *)
(* headers exactly when the model is of the Claude family and thinking-     *)
(* capable, so never for a Gemini model nor for a Claude model that is not  *)
(* a thinking model; Accept is there only when the requested accept type    *)
(* is not application/json; Authorization: Bearer <token> and               *)
(* Content-Type: application/json are always there.                         *)
C19_Headers ==
    "headers" \in wire.built =>
        LET headers == wire.headers
            model == wire.inputs.model
            beta == "anthropic-beta" \in DOMAIN headers
        IN  /\ beta <=> (getModelFamily(model) = "claude" /\ isThinkingModel(model))
            /\ beta => headers["anthropic-beta"] = "interleaved-thinking-2025-05-14"
            /\ getModelFamily(model) = "gemini" => ~beta
            /\ ~includes(lower(model), "thinking") /\ ~includes(lower(model), "gemini") => ~beta
            /\ "Accept" \in DOMAIN headers =>
                  /\ wire.inputs.accept \notin {Undefined, "application/json"}
                  /\ headers["Accept"] = wire.inputs.accept
            /\ "Authorization" \in DOMAIN headers
            /\ headers["Authorization"] = <<"Bearer ", wire.inputs.token>>
            /\ "Content-Type" \in DOMAIN headers
            /\ headers["Content-Type"] = "application/json"

C19_Witness ==
    /\ "headers" \in wire.built
    /\ getModelFamily(wire.inputs.model) = "claude"
    /\ isThinkingModel(wire.inputs.model)
    /\ wire.inputs.accept = "text/event-stream"
    /\ "anthropic-beta" \in DOMAIN wire.headers
    /\ "Accept" \in DOMAIN wire.headers

----------------------------------------------------------------------------
(* The token a call carries after a 401 *)

TokenResponses ==
    {HttpResponse(200, 0), HttpResponse(401, 0), HttpResponse(429, ShortResetMs),
     HttpResponse(500, 0)}

InitToken ==
    InitWith(Scenario({"caches", "tokens"}, FALSE, MaxRequests, Entries, {"gemini-3-pro-high"},
                      {FALSE}, TokenResponses, {"ok"}, {"StreamError"}))

SpecToken == InitToken /\ [][Next]_vars

(* C20: after an endpoint answers 401 for the account of a request, the    *)
(* token and project caches of the account are cleared, and every call the *)
(* request issues with that account afterwards carries a token resolved    *)
(* after the 401, never the token that was answered 401.                   *)
C20_FreshTokenAfter401 ==
    \A r \in Requests :
        /\ obs[r].tok.rejected =>
              /\ ~pool.tokenCache[obs[r].tok.account]
              /\ ~pool.projectCache[obs[r].tok.account]
        /\ ~obs[r].tok.staleCall

----------------------------------------------------------------------------
(* The call that fails with a transport error *)

NetResponses ==
    {HttpResponse(200, 0), HttpResponse(429, ShortResetMs), HttpResponse(500, 0), FetchFailed}

InitNet ==
    InitWith(Scenario({"net"}, FALSE, MaxRequests, Entries, {"gemini-3-pro-high"},
                      {FALSE}, NetResponses, {"ok"}, {"StreamError"}))

SpecNet == InitNet /\ [][Next]_vars

(* C21: after a call of a request failed with a transport error, no further *)
(* call is issued in the attempt in which it failed: the next call of the   *)
(* request belongs to a new attempt.                                         *)
C21_NetworkErrorEndsAttempt ==
    \A r \in Requests : ~obs[r].net.callSameAttempt

----------------------------------------------------------------------------
(* The endpoint that answers 5xx *)

Http5xxResponses ==
    {HttpResponse(200, 0), HttpResponse(401, 0), HttpResponse(429, ShortResetMs),
     HttpResponse(500, 0), HttpResponse(502, 0)}

InitHttp5xx ==
    InitWith(Scenario({"5xx"}, FALSE, MaxRequests, Entries, {"gemini-3-pro-high"},
                      {FALSE}, Http5xxResponses, {"ok"}, {"StreamError"}))

SpecHttp5xx == InitHttp5xx /\ [][Next]_vars

----------------------------------------------------------------------------
(* The short 429 that follows a re-issue *)

OnceResponses ==
    {HttpResponse(200, 0), HttpResponse(429, 0), HttpResponse(429, ShortResetMs),
     HttpResponse(500, 0), FetchFailed}

InitOnce ==
    InitWith(Scenario({"once"}, FALSE, MaxRequests, Entries, {"gemini-3-pro-high"},
                      {FALSE}, OnceResponses, {"ok"}, {"StreamError"}))

SpecOnce == InitOnce /\ [][Next]_vars

(* C23: an attempt re-issues a call after a short 429 at most once; a short *)
(* 429 answered later in the same attempt, on any endpoint, is not waited   *)
(* on: the account is marked limited for the wait time and the attempt      *)
(* ends.                                                                    *)
C23_ReissueOnce ==
    \A r \in Requests : obs[r].once.reissues <= 1 /\ obs[r].once.ok

C23_Witness ==
    \E r \in Requests :
        /\ obs[r].once.again
        /\ obs[r].once.reissues = 1
        /\ req[r].pc = "loop"

----------------------------------------------------------------------------
(* The re-issued call that fails *)

RetryResponses ==
    {HttpResponse(200, 0), HttpResponse(401, 0), HttpResponse(429, 0),
     HttpResponse(429, ShortResetMs), HttpResponse(429, LongResetMs), HttpResponse(500, 0)}

InitRetry ==
    InitWith(Scenario({"retry"}, FALSE, MaxRequests, Entries, {"gemini-3-pro-high"},
                      {FALSE}, RetryResponses, {"ok"}, {"StreamError"}))

SpecRetry == InitRetry /\ [][Next]_vars

(* C24: the call re-issued after a short 429 follows a sleep of the parsed *)
(* reset time, or of 10 000 ms when there is none; when its answer is not  *)
(* 2xx, whatever the status, the account is marked limited for the model   *)
(* of the dispatch for the reset time parsed from that answer or, if none, *)
(* for the wait just used, no further endpoint is called in the attempt,   *)
(* and the attempt loop continues.                                         *)
C24_FailedRetryMarks ==
    \A r \in Requests : obs[r].r24.ok

C24_Witness ==
    \E r \in Requests :
        /\ obs[r].r24.status = 500
        /\ obs[r].r24.wait = DEFAULT_COOLDOWN_MS
        /\ req[r].pc = "loop"
        /\ \E a \in Accounts : pool.rateLimits[a][req[r].model] = DEFAULT_COOLDOWN_MS

----------------------------------------------------------------------------
(* The endpoint that answers 401 *)

AuthResponses ==
    {HttpResponse(200, 0), HttpResponse(401, 0), HttpResponse(429, ShortResetMs),
     HttpResponse(500, 0)}

InitAuth ==
    InitWith(Scenario({"caches", "auth"}, FALSE, MaxRequests, Entries, {"gemini-3-pro-high"},
                      {FALSE}, AuthResponses, {"ok"}, {"StreamError"}))

SpecAuth == InitAuth /\ [][Next]_vars

----------------------------------------------------------------------------
(* The accounts a dispatch marks limited *)

MarkResponses ==
    {HttpResponse(200, 0), HttpResponse(400, 0), HttpResponse(401, 0), HttpResponse(429, 0),
     HttpResponse(429, LongResetMs), HttpResponse(500, 0), FetchFailed}

InitMarks ==
    InitWith(Scenario({"marks"}, FALSE, MaxRequests, Entries, {"gemini-3-pro-high"},
                      {FALSE}, MarkResponses, {"ok"}, {"StreamError"}))

SpecMarks == InitMarks /\ [][Next]_vars

(* C26: a dispatch marks limited only the account selected by its current *)
(* attempt, only for its own model, and only after a call of that attempt  *)
(* answered 429: a 401, 5xx, 4xx, transport error or empty response alone  *)
(* marks nothing.                                                          *)
C26_MarkOnlyAfter429 ==
    \A r \in Requests : obs[r].m26.ok

C26_Witness ==
    \E r \in Requests :
        /\ obs[r].m26.marked
        /\ obs[r].m26.got429
        /\ req[r].pc = "loop"
        /\ pool.rateLimits[obs[r].m26.account][req[r].model] = LongResetMs

----------------------------------------------------------------------------
(* The dispatch whose attempts are all consumed *)

ExhaustResponses ==
    {HttpResponse(200, 0), HttpResponse(401, 0), HttpResponse(429, ShortResetMs),
     HttpResponse(500, 0)}

InitExhaust ==
    InitWith(Scenario({"exhaust"}, FALSE, MaxRequests, Entries, RequestModels,
                      BOOLEAN, ExhaustResponses, {"ok"}, {"StreamError"}))

SpecExhaust == InitExhaust /\ [][Next]_vars

(* C27: when the N = max(5, accounts + 1) attempts of a dispatch are        *)
(* consumed, the dispatch ends with the error 'Max retries exceeded' if     *)
(* fallback is disabled or its model has no fallback mapping; otherwise it  *)
(* goes on as the one fallback dispatch, for the fallback model and with    *)
(* fallback disabled, whose outcome is the outcome of the request; and a    *)
(* request ends only in a completed response or in a thrown error.          *)
C27_Exhaustion ==
    \A r \in Requests :
        /\ obs[r].x27.ok
        /\ obs[r].x27.count <= 2
        /\ req[r].pc = "done" =>
              /\ req[r].result \in {"ok", "errorEvent", "error"}
              /\ req[r].result = "error" <=> req[r].error # NoError
              /\ obs[r].x27.count > 0 /\ req[r].model = req[r].origModel =>
                    req[r].error.kind = "Max retries exceeded"
              /\ obs[r].x27.count = 2 =>
                    /\ req[r].model = getFallbackModel(req[r].origModel)
                    /\ req[r].error.kind = "Max retries exceeded"

C27_Witness ==
    \E r \in Requests :
        /\ req[r].pc = "done"
        /\ obs[r].x27.count = 2
        /\ req[r].model = getFallbackModel(req[r].origModel)
        /\ req[r].error.kind = "Max retries exceeded"

----------------------------------------------------------------------------
(* The attempt that finds no account *)

NoneResponses ==
    {HttpResponse(200, 0), HttpResponse(429, ShortResetMs), HttpResponse(500, 0)}

InitNone ==
    InitWith(Scenario({"calls", "none"}, FALSE, MaxRequests, Entries, RequestModels,
                      BOOLEAN, NoneResponses, {"ok"}, {"StreamError"}))

SpecNone == InitNone /\ [][Next]_vars

(* C28: when an attempt finds no account available for the model and the  *)
(* pool does not report all accounts as rate-limited, the dispatch fails   *)
(* at once with 'No accounts available': no sleep, no fallback dispatch    *)
(* and no upstream call in that attempt.                                   *)
C28_NoAccountsAvailable ==
    \A r \in Requests : obs[r].n28.ok

C28_Witness ==
    \E r \in Requests :
        /\ obs[r].n28.seen
        /\ req[r].pc = "done"
        /\ req[r].error.kind = "No accounts available"
        /\ req[r].fallbackEnabled
        /\ getFallbackModel(req[r].model) # NoModel
        /\ obs[r].calls = 0

----------------------------------------------------------------------------
(* The upstream calls of an attempt *)

OrderResponses ==
    {HttpResponse(200, 0), HttpResponse(401, 0), HttpResponse(429, 0),
     HttpResponse(429, ShortResetMs), HttpResponse(500, 0), FetchFailed}

InitOrder ==
    InitWith(Scenario({"order"}, FALSE, MaxRequests, Entries, {"gemini-3-pro-high"},
                      {FALSE}, OrderResponses, {"ok"}, {"StreamError"}))

SpecOrder == InitOrder /\ [][Next]_vars

(* C29: a request has at most one upstream call in flight at any time;     *)
(* within one attempt every upstream call uses the account selected at the *)
(* start of that attempt, and the endpoints are called in list order, the  *)
(* daily endpoint before the production endpoint, never an earlier one     *)
(* after a later one.                                                      *)
C29_OneCallInListOrder ==
    \A r \in Requests : obs[r].o29.ok

C29_Witness ==
    \E r \in Requests :
        /\ req[r].pc = "fetch"
        /\ obs[r].o29.inFlight
        /\ obs[r].o29.lastEp = NumEndpoints
        /\ req[r].attempt > 0
        /\ req[r].account = obs[r].o29.account

----------------------------------------------------------------------------
(* The two entry points side by side: slot 1 is a sendMessage dispatch and *)
(* slot 2 a sendMessageStream dispatch of the same request.  Each works on *)
(* a pool of its own (the pool of slot 2 is wire.pool), both pools start   *)
(* equal, and every await of the two is answered with the same outcome.    *)

TwinResponses ==
    {HttpResponse(200, 0), HttpResponse(304, 0), HttpResponse(400, 0), HttpResponse(401, 0),
     HttpResponse(429, ShortResetMs), HttpResponse(429, LongResetMs),
     HttpResponse(500, 0), FetchFailed}

InitTwin ==
    /\ \E n \in 0..MaxPool : pool = InitPool(n)
    /\ req = [r \in Requests |-> IdleRq]
    /\ obs = [r \in Requests |-> IdleOb]
    /\ lastSuccess = [m \in Models |-> NoAccount]
    /\ started = 0
    /\ scenario = Scenario({"calls"}, FALSE, MaxRequests, Entries, RequestModels,
                           BOOLEAN, TwinResponses, {"ok"}, {})
    /\ wire = [pool |-> pool, ls |-> lastSuccess]

St2 == [pool |-> wire.pool, rq |-> req[2], ob |-> obs[2], ls |-> wire.ls, scenario |-> scenario]

ApplyTwin(a, b) ==
    /\ pool' = a.pool
    /\ lastSuccess' = a.ls
    /\ wire' = [pool |-> b.pool, ls |-> b.ls]
    /\ req' = [req EXCEPT ![1] = a.rq, ![2] = b.rq]
    /\ obs' = [obs EXCEPT ![1] = a.ob, ![2] = b.ob]
    /\ UNCHANGED <<started, scenario>>

TwinAt(pcs) == req[1].pc \in pcs /\ req[2].pc = req[1].pc

TwinStart ==
    /\ TwinAt({"idle"})
    /\ started < scenario.requests
    /\ \E m \in scenario.models, fb \in scenario.fallbacks :
          LET rq(entry, p) ==
                  [IdleRq EXCEPT !.pc = "loop", !.entry = entry,
                                 !.model = m, !.origModel = m, !.fallbackEnabled = fb,
                                 !.maxAttempts = Max(MAX_RETRIES, getAccountCount(p) + 1)]
          IN  /\ req' = [req EXCEPT ![1] = rq("sendMessage", pool),
                                    ![2] = rq("sendMessageStream", wire.pool)]
              /\ obs' = [obs EXCEPT ![1] = [IdleOb EXCEPT !.fb0 = fb],
                                    ![2] = [IdleOb EXCEPT !.fb0 = fb]]
    /\ started' = started + 1
    /\ UNCHANGED <<pool, lastSuccess, scenario, wire>>

TwinLoop ==
    /\ TwinAt({"loop"})
    /\ ApplyTwin(LoopHead(St(1)), LoopHead(St2))

TwinResolve ==
    /\ TwinAt({"resolve"})
    /\ \E outcome \in scenario.resolves :
          ApplyTwin(Resolved(St(1), outcome), Resolved(St2, outcome))

TwinFetch ==
    /\ TwinAt({"fetch"})
    /\ \E response \in scenario.responses :
          ApplyTwin(OnResponse(St(1), response), OnResponse(St2, response))

TwinRetry ==
    /\ TwinAt({"retryFetch"})
    /\ \E response \in scenario.responses :
          ApplyTwin(OnRetryResponse(St(1), response), OnRetryResponse(St2, response))

(* a non-empty 2xx body is read to its end: sendMessage parses it, the     *)
(* consumer of sendMessageStream receives its events                       *)
TwinBody ==
    /\ req[1].pc = "parse"
    /\ req[2].pc \in StreamPcs
    /\ ApplyTwin(Parsed(St(1), "ok"), Completed(Yielded(St2)))

TwinWake ==
    /\ TwinAt(SleepPcs)
    /\ req[1].timer = 0
    /\ req[2].timer = 0
    /\ ApplyTwin(Woken(St(1)), Woken(St2))

TwinClose ==
    /\ TwinAt({"done"})
    /\ req' = [req EXCEPT ![1] = IdleRq, ![2] = IdleRq]
    /\ obs' = [obs EXCEPT ![1] = IdleOb, ![2] = IdleOb]
    /\ UNCHANGED <<pool, lastSuccess, started, scenario, wire>>

TwinTimePasses ==
    /\ \A r \in Requests : req[r].pc # "loop"
    /\ \A r \in Sleepers : req[r].timer > 0
    /\ Sleepers = {} =>
          /\ \A r \in Requests : req[r].pc = "idle"
          /\ \E a \in Accounts, m \in Models :
                pool.rateLimits[a][m] > 0 \/ wire.pool.rateLimits[a][m] > 0
    /\ LET d == IF Sleepers # {}
                THEN RoundUp(SetMin({req[r].timer : r \in Sleepers}))
                ELSE ClockStepMs
       IN  /\ pool' = Elapsed(pool, d)
           /\ wire' = [wire EXCEPT !.pool = Elapsed(@, d)]
           /\ req' = [r \in Requests |->
                        IF r \in Sleepers THEN [req[r] EXCEPT !.timer = Max(0, @ - d)]
                        ELSE req[r]]
    /\ UNCHANGED <<obs, lastSuccess, started, scenario>>

NextTwin ==
    \/ TwinStart
    \/ TwinLoop
    \/ TwinResolve
    \/ TwinFetch
    \/ TwinRetry
    \/ TwinBody
    \/ TwinWake
    \/ TwinClose
    \/ TwinTimePasses

SpecTwin == InitTwin /\ [][NextTwin]_vars

(* where a dispatch stands, whichever the entry point: reading the body of *)
(* a 2xx response is one place                                             *)
PlaceOf(rq) == IF rq.pc \in StreamPcs THEN "parse" ELSE rq.pc

(* what is seen of a dispatch from outside, whichever the entry point: the *)
(* error of the endpoint loop counts when it is thrown to the caller       *)
SkeletonOf(rq) ==
    [rq EXCEPT !.entry = "", !.pc = PlaceOf(rq), !.evThis = 0, !.lastError = NoError]

(* C30: sendMessage and sendMessageStream share one control skeleton: fed  *)
(* the same upstream outcomes (status codes, transport errors, non-empty   *)
(* 2xx bodies) both perform the same pool operations, the same sleeps and  *)
(* the same upstream calls in the same endpoint order, and both end in the *)
(* same kind of outcome: a response, a fallback dispatch or the same error *)
C30_SameSkeleton ==
    /\ wire.pool = pool
    /\ wire.ls = lastSuccess
    /\ SkeletonOf(req[1]) = SkeletonOf(req[2])
    /\ obs[1].calls = obs[2].calls
    /\ obs[1].hops = obs[2].hops

----------------------------------------------------------------------------
(* The Kiro surface: POST /generateAssistantResponse and the transformer    *)
(* streamAnthropicToKiro, which consumes the events of sendMessageStream    *)
(* and writes event-stream frames to the response.  The state of one Kiro   *)
(* request is held in wire.                                                 *)

MaxKiroEvents == 7
MaxJsonLen == 17

(* a text is the sequence of its characters; a character of a partial_json *)
(* is known by its position                                                *)
JsonOf(n) == [i \in 1..n |-> i]

JsonLens == {0, 3, 8, 11, MaxJsonLen}

(* the canonical events: type, the type of the block or of the delta, the  *)
(* payload, and the number the adapter produced the event under            *)
Ev(type, sub, data) == [type |-> type, sub |-> sub, data |-> data, seq |-> 0]

(* streamSSEResponse: the events the adapter can produce next.  Every block *)
(* it opens it stops before message_stop; at any point the stream may end   *)
(* with a terminal error event.                                             *)
AdapterNext(phase) ==
    CASE phase = "new" -> {[ev |-> Ev("message_start", "", <<>>), to |-> "open"]}
      [] phase = "open" ->
            {[ev |-> Ev("content_block_start", "text", <<>>), to |-> "text"],
             [ev |-> Ev("content_block_start", "tool_use", <<>>), to |-> "tool"],
             [ev |-> Ev("message_delta", "", <<>>), to |-> "closing"]}
      [] phase = "text" ->
            {[ev |-> Ev("content_block_delta", "text_delta", t), to |-> "text"] :
                  t \in {<<>>, <<"h", "i">>}}
               \cup {[ev |-> Ev("content_block_stop", "", <<>>), to |-> "open"]}
      [] phase = "tool" ->
            {[ev |-> Ev("content_block_delta", "input_json_delta", JsonOf(n)), to |-> "tool"] :
                  n \in JsonLens}
               \cup {[ev |-> Ev("content_block_stop", "", <<>>), to |-> "open"]}
      [] phase = "closing" -> {[ev |-> Ev("message_stop", "", <<>>), to |-> "over"]}
      [] OTHER -> {}

ErrorEvent == Ev("error", "", <<>>)

NoTool == ""

NoChunks == [active |-> FALSE, json |-> <<>>, i |-> 0, from |-> 0, name |-> NoTool, id |-> NoTool]

(* res, the response of express: the frames written, the calls of end      *)
(* (json ends the response too), and the status of an error answer          *)
NoRes == [frames |-> <<>>, ended |-> 0, status |-> 0, body |-> ""]

IdleKiro ==
    [pc |-> "idle", phase |-> "new", produced |-> <<>>, yielded |-> <<>>, n |-> 0,
     hasEmittedContent |-> FALSE, currentToolId |-> NoTool, currentToolName |-> NoTool,
     chunks |-> NoChunks, res |-> NoRes, outcome |-> "none"]

Frame(kind, k) ==
    [kind |-> kind, from |-> k.n, name |-> NoTool, toolUseId |-> NoTool,
     input |-> <<>>, stop |-> FALSE, content |-> <<>>]

(* encodeEventStreamMessage(eventType, payload), written with res.write *)
createAssistantResponseEvent(k, content) ==
    [Frame("assistantResponseEvent", k) EXCEPT !.content = content]

createToolUseEvent(k, name, id, input, stop) ==
    [Frame("toolUseEvent", k) EXCEPT !.name = name, !.toolUseId = id,
                                     !.input = input, !.stop = stop]

createMeteringEvent(k) == Frame("meteringEvent", k)

createContextUsageEvent(k) == Frame("contextUsageEvent", k)

write(k, frame) == [k EXCEPT !.res.frames = Append(@, frame)]

end(k) == [k EXCEPT !.res.ended = @ + 1]

headersSent(k) == Len(k.res.frames) > 0 \/ k.res.ended > 0

chunkSize == 8

slice(json, i, j) == SubSeq(json, i + 1, Min(j, Len(json)))

(* catch of the route handler, part_001 213-227 *)
RouteCatch(k) ==
    IF ~headersSent(k)
    THEN [end(k) EXCEPT !.res.status = 500, !.res.body = "api_error", !.pc = "done",
                        !.outcome = "error"]
    ELSE [end(k) EXCEPT !.pc = "done", !.outcome = "error"]

(* the error is thrown on after the response was ended *)
KiroCatch_endsAndThrows(k) ==
    IF k.hasEmittedContent
    THEN RouteCatch(end(k))
    ELSE RouteCatch(k)

(* catch (error) of streamAnthropicToKiro, part_000 195-205 *)
KiroCatch(k) ==
    IF k.hasEmittedContent
    THEN [end(k) EXCEPT !.pc = "done", !.outcome = "cut"]
    ELSE RouteCatch(k)

(* a chunk takes one character more than the loop advances by *)
WriteChunk_overlapping(k) ==
    LET c == k.chunks
    IN  [write(k, [createToolUseEvent(k, c.name, c.id,
                                      slice(c.json, c.i, c.i + chunkSize + 1), FALSE)
                      EXCEPT !.from = c.from])
            EXCEPT !.chunks.i = c.i + chunkSize]

(* one iteration of the chunk loop, part_000 129-145: the chunk is written *)
(* and the delay awaited                                                    *)
WriteChunk(k) ==
    LET c == k.chunks
    IN  [write(k, [createToolUseEvent(k, c.name, c.id,
                                      slice(c.json, c.i, c.i + chunkSize), FALSE)
                      EXCEPT !.from = c.from])
            EXCEPT !.chunks.i = c.i + chunkSize]

RECURSIVE WriteAllChunks(_)
WriteAllChunks(k) ==
    IF k.chunks.i < Len(k.chunks.json) THEN WriteAllChunks(WriteChunk(k))
    ELSE [k EXCEPT !.chunks = NoChunks]

(* the delay of a chunk is over: the loop writes the next chunk or ends *)
ChunkDelayOver(k) ==
    IF k.chunks.i < Len(k.chunks.json)
    THEN WriteChunk(k)
    ELSE [k EXCEPT !.chunks = NoChunks, !.pc = "await"]

(* the chunks after the first are written by timers that are not awaited *)
OnInputJsonDelta_detached(k, partialJson) ==
    IF partialJson # <<>> /\ k.currentToolId # NoTool /\ k.currentToolName # NoTool
    THEN LET k2 == [k EXCEPT !.hasEmittedContent = TRUE,
                             !.chunks = [active |-> TRUE, json |-> partialJson, i |-> 0,
                                         from |-> k.n, name |-> k.currentToolName,
                                         id |-> k.currentToolId]]
         IN  IF Len(partialJson) > 10
             THEN WriteChunk(k2)
             ELSE WriteAllChunks(k2)
    ELSE k

(* the input_json_delta branch, part_000 117-147 *)
OnInputJsonDelta(k, partialJson) ==
    IF partialJson # <<>> /\ k.currentToolId # NoTool /\ k.currentToolName # NoTool
    THEN LET k2 == [k EXCEPT !.hasEmittedContent = TRUE,
                             !.chunks = [active |-> TRUE, json |-> partialJson, i |-> 0,
                                         from |-> k.n, name |-> k.currentToolName,
                                         id |-> k.currentToolId]]
         IN  IF Len(partialJson) > 10
             THEN [WriteChunk(k2) EXCEPT !.pc = "chunk"]
             ELSE WriteAllChunks(k2)
    ELSE k

(* the body of the for await loop, part_000 82-171 *)
OnEvent(k, event) ==
    CASE event.type = "content_block_start" ->
            IF event.sub = "tool_use"
            THEN [write([k EXCEPT !.currentToolId = "toolu_1", !.currentToolName = "fn"],
                        createToolUseEvent(k, "fn", "toolu_1", <<>>, FALSE))
                     EXCEPT !.hasEmittedContent = TRUE]
            ELSE k
      [] event.type = "content_block_delta" ->
            IF event.sub = "text_delta"
            THEN IF event.data # <<>>
                 THEN write([k EXCEPT !.hasEmittedContent = TRUE],
                            createAssistantResponseEvent(k, event.data))
                 ELSE k
            ELSE IF event.sub = "input_json_delta"
                 THEN OnInputJsonDelta(k, event.data)
                 ELSE k
      [] event.type = "content_block_stop" ->
            IF k.currentToolId # NoTool /\ k.currentToolName # NoTool
            THEN [write(k, createToolUseEvent(k, k.currentToolName, k.currentToolId,
                                              <<>>, TRUE))
                     EXCEPT !.currentToolId = NoTool, !.currentToolName = NoTool]
            ELSE k
      [] event.type = "error" -> KiroCatch(k)
      [] OTHER -> k

(* the metering frame is written after the context usage frame *)
KiroCompleted_meteringLast(k) ==
    LET k1 == [k EXCEPT !.n = 0]
        k2 == IF ~k.hasEmittedContent
              THEN write(k1, createAssistantResponseEvent(k1, <<".", ".", ".">>))
              ELSE k1
        k3 == write(write(k2, createContextUsageEvent(k1)), createMeteringEvent(k1))
    IN  [end(k3) EXCEPT !.n = k.n, !.pc = "done", !.outcome = "completed"]

(* after the loop, part_000 173-193 *)
KiroCompleted(k) ==
    LET k1 == [k EXCEPT !.n = 0]
        k2 == IF ~k.hasEmittedContent
              THEN write(k1, createAssistantResponseEvent(k1, <<".", ".", ".">>))
              ELSE k1
        k3 == write(write(k2, createMeteringEvent(k1)), createContextUsageEvent(k1))
    IN  [end(k3) EXCEPT !.n = k.n, !.pc = "done", !.outcome = "completed"]

InitKiro ==
    /\ pool = InitPool(1)
    /\ req = [r \in Requests |-> IdleRq]
    /\ obs = [r \in Requests |-> IdleOb]
    /\ lastSuccess = [m \in Models |-> NoAccount]
    /\ started = 0
    /\ scenario = Scenario({}, FALSE, 1, {"sendMessageStream"}, RequestModels,
                           {FALSE}, {}, {"ok"}, {})
    /\ wire = IdleKiro

(* POST /generateAssistantResponse, part_001 181-211: the headers are set  *)
(* and streamAnthropicToKiro awaits the first event                        *)
KiroStart ==
    /\ wire.pc = "idle"
    /\ wire' = [wire EXCEPT !.pc = "await"]
    /\ UNCHANGED <<pool, req, obs, lastSuccess, started, scenario>>

(* the adapter produces an event, sendMessageStream hands it on with       *)
(* yield*, and the body of the for await loop runs for it                  *)
KiroEvent ==
    /\ wire.pc = "await"
    /\ wire.phase # "over"
    /\ Len(wire.produced) < MaxKiroEvents
    /\ \E x \in AdapterNext(wire.phase) \cup {[ev |-> ErrorEvent, to |-> "over"]} :
          LET event == [x.ev EXCEPT !.seq = Len(wire.produced) + 1]
              k == [wire EXCEPT !.phase = x.to,
                                !.produced = Append(@, event),
                                !.yielded = Append(@, event),
                                !.n = @ + 1]
          IN  wire' = OnEvent(k, event)
    /\ UNCHANGED <<pool, req, obs, lastSuccess, started, scenario>>

(* the generator returns after message_stop *)
KiroReturn ==
    /\ wire.pc = "await"
    /\ wire.phase = "over"
    /\ wire' = KiroCompleted(wire)
    /\ UNCHANGED <<pool, req, obs, lastSuccess, started, scenario>>

(* the dispatch throws: before its first event, or while a response is read *)
KiroThrow ==
    /\ wire.pc = "await"
    /\ wire.phase # "over"
    /\ wire' = KiroCatch(wire)
    /\ UNCHANGED <<pool, req, obs, lastSuccess, started, scenario>>

(* setTimeout(resolve, 8) of the chunk loop fires *)
KiroChunk ==
    /\ wire.pc \in {"chunk", "await"}
    /\ wire.chunks.active
    /\ wire' = ChunkDelayOver(wire)
    /\ UNCHANGED <<pool, req, obs, lastSuccess, started, scenario>>

NextKiro ==
    \/ KiroStart
    \/ KiroEvent
    \/ KiroReturn
    \/ KiroThrow
    \/ KiroChunk

SpecKiro == InitKiro /\ [][NextKiro]_vars

(* C31: the events of a request reach the client in the order the adapter  *)
(* produced them: sendMessageStream yields the adapter's events unchanged   *)
(* and in order, and the frames derived from event k are written before     *)
(* any frame derived from event k+1, also across the awaited delays of the  *)
(* tool-input chunks.                                                       *)
C31_EventOrder ==
    /\ wire.yielded = wire.produced
    /\ \A i \in DOMAIN wire.yielded : wire.yielded[i].seq = i
    /\ \A i, j \in DOMAIN wire.res.frames :
          (i < j /\ wire.res.frames[i].from > 0 /\ wire.res.frames[j].from > 0)
              => wire.res.frames[i].from <= wire.res.frames[j].from
    /\ \A i \in DOMAIN wire.res.frames : wire.res.frames[i].from <= wire.n

(* chunks of an earlier event were written across delays, and a frame of a *)
(* later event follows them                                                 *)
C31_Witness ==
    \E i, j \in DOMAIN wire.res.frames :
        /\ i + 2 < j
        /\ wire.res.frames[i].input # <<>>
        /\ wire.res.frames[i + 1].input # <<>>
        /\ wire.res.frames[i + 2].input # <<>>
        /\ wire.res.frames[i].from = wire.res.frames[i + 2].from
        /\ wire.res.frames[j].from = wire.res.frames[i].from + 1
        /\ wire.res.frames[j].stop

----------------------------------------------------------------------------
(* The events of the synthetic empty-response message, one per yield of    *)
(* function* emitEmptyResponseFallback, streaming-handler.js 325-364       *)

(* crypto.randomBytes(16).toString('hex'), abridged *)
MessageIds == {"msg_00", "msg_3f", "msg_5e", "msg_a7", "msg_c1", "msg_ff"}

NoResponseText == "[No response after retries - please try again]"

(* the content_block_stop is missing *)
FallbackEvents_noStop(model, messageId) ==
    << [type |-> "message_start",
        message |-> [id |-> messageId, type |-> "message", role |-> "assistant",
                     content |-> <<>>, model |-> model, stop_reason |-> "null",
                     stop_sequence |-> "null",
                     usage |-> [input_tokens |-> 0, output_tokens |-> 0]]],
       [type |-> "content_block_start", index |-> 0,
        content_block |-> [type |-> "text", text |-> ""]],
       [type |-> "content_block_delta", index |-> 0,
        delta |-> [type |-> "text_delta", text |-> NoResponseText]],
       [type |-> "message_delta",
        delta |-> [stop_reason |-> "end_turn", stop_sequence |-> "null"],
        usage |-> [output_tokens |-> 0]],
       [type |-> "message_stop"] >>

FallbackEvents(model, messageId) ==
    << [type |-> "message_start",
        message |-> [id |-> messageId, type |-> "message", role |-> "assistant",
                     content |-> <<>>, model |-> model, stop_reason |-> "null",
                     stop_sequence |-> "null",
                     usage |-> [input_tokens |-> 0, output_tokens |-> 0]]],
       [type |-> "content_block_start", index |-> 0,
        content_block |-> [type |-> "text", text |-> ""]],
       [type |-> "content_block_delta", index |-> 0,
        delta |-> [type |-> "text_delta", text |-> NoResponseText]],
       [type |-> "content_block_stop", index |-> 0],
       [type |-> "message_delta",
        delta |-> [stop_reason |-> "end_turn", stop_sequence |-> "null"],
        usage |-> [output_tokens |-> 0]],
       [type |-> "message_stop"] >>

InitFallbackMessage ==
    /\ pool = InitPool(1)
    /\ req = [r \in Requests |-> IdleRq]
    /\ obs = [r \in Requests |-> IdleOb]
    /\ lastSuccess = [m \in Models |-> NoAccount]
    /\ started = 0
    /\ scenario = Scenario({}, FALSE, 1, {"sendMessageStream"}, RequestModels,
                           {FALSE}, {}, {"ok"}, {})
    /\ \E model \in Models :
          wire = [pc |-> "called", model |-> model, messageId |-> "", at |-> 0,
                  events |-> <<>>]

(* the first next() runs the generator up to its first yield *)
FallbackFirstYield ==
    /\ wire.pc = "called"
    /\ \E id \in MessageIds :
          wire' = [wire EXCEPT !.pc = "yielded", !.messageId = id, !.at = 1,
                               !.events = <<FallbackEvents(wire.model, id)[1]>>]
    /\ UNCHANGED <<pool, req, obs, lastSuccess, started, scenario>>

FallbackYield ==
    /\ wire.pc = "yielded"
    /\ wire.at < Len(FallbackEvents(wire.model, wire.messageId))
    /\ wire' = [wire EXCEPT !.at = @ + 1,
                            !.events = Append(@, FallbackEvents(wire.model,
                                                                wire.messageId)[wire.at + 1])]
    /\ UNCHANGED <<pool, req, obs, lastSuccess, started, scenario>>

FallbackReturn ==
    /\ wire.pc = "yielded"
    /\ wire.at = Len(FallbackEvents(wire.model, wire.messageId))
    /\ wire' = [wire EXCEPT !.pc = "returned"]
    /\ UNCHANGED <<pool, req, obs, lastSuccess, started, scenario>>

NextFallbackMessage ==
    \/ FallbackFirstYield
    \/ FallbackYield
    \/ FallbackReturn

SpecFallbackMessage == InitFallbackMessage /\ [][NextFallbackMessage]_vars

CanonicalTypes ==
    <<"message_start", "content_block_start", "content_block_delta",
      "content_block_stop", "message_delta", "message_stop">>

(* C32: the synthetic empty-response message is a well-formed canonical    *)
(* stream: message_start, content_block_start (index 0, text),             *)
(* content_block_delta (index 0, text_delta with the fixed text),          *)
(* content_block_stop (index 0), message_delta (stop_reason end_turn,      *)
(* output_tokens 0), message_stop, in that order and nothing else.         *)
C32_SyntheticMessage ==
    LET e == wire.events
    IN  /\ Len(e) <= 6
        /\ \A i \in DOMAIN e : e[i].type = CanonicalTypes[i]
        /\ Len(e) >= 2 => e[2].index = 0 /\ e[2].content_block.type = "text"
        /\ Len(e) >= 3 => /\ e[3].index = 0
                          /\ e[3].delta.type = "text_delta"
                          /\ e[3].delta.text = "[No response after retries - please try again]"
        /\ Len(e) >= 4 => e[4].index = 0
        /\ Len(e) >= 5 => /\ e[5].delta.stop_reason = "end_turn"
                          /\ e[5].usage.output_tokens = 0
        /\ wire.pc = "returned" => Len(e) = 6

C32_Witness ==
    /\ wire.pc = "returned"
    /\ Len(wire.events) = 6
    /\ wire.events[6].type = "message_stop"
    /\ wire.events[1].message.id \in MessageIds

----------------------------------------------------------------------------
(* The path of the upstream calls *)

PathResponses ==
    {HttpResponse(200, 0), HttpResponse(429, ShortResetMs), HttpResponse(500, 0)}

InitPaths ==
    InitWith(Scenario({"paths"}, FALSE, MaxRequests, Entries, RequestModels,
                      {FALSE}, PathResponses, {"ok"}, {"StreamError"}))

SpecPaths == InitPaths /\ [][Next]_vars

(* the models that support thinking output *)
ThinkingCapable == {"gemini-3-pro-high", "claude-opus-4-5-thinking"}

(* C33: sendMessageStream always calls the SSE path with Accept            *)
(* text/event-stream; sendMessage calls the SSE path exactly when the      *)
(* model is thinking-capable and the plain JSON path otherwise, and the    *)
(* re-issued call after a short 429 goes to the path of the first call.    *)
C33_PathSelection ==
    \A r \in Requests : \A call \in obs[r].p33 :
        /\ call.entry = "sendMessageStream" =>
              /\ call.url = "/v1internal:streamGenerateContent?alt=sse"
              /\ call.accept = "text/event-stream"
        /\ call.entry = "sendMessage" =>
              call.url = IF call.model \in ThinkingCapable
                         THEN "/v1internal:streamGenerateContent?alt=sse"
                         ELSE "/v1internal:generateContent"
        /\ \A other \in obs[r].p33 :
              (other.entry = call.entry /\ other.model = call.model) => other.url = call.url

C33_Witness ==
    \E r \in Requests : \E first, again \in obs[r].p33 :
        /\ first.entry = "sendMessage"
        /\ first.model = "gemini-2.5-flash-lite"
        /\ ~first.reissue
        /\ again.reissue
        /\ again.model = first.model
        /\ again.url = "/v1internal:generateContent"

----------------------------------------------------------------------------
(* The static fallback mapping, followed from a model, and the families of *)
(* the models met on the way                                               *)

MaxFollow == 5

FamilyInputs == DOMAIN MODEL_FALLBACK_MAP \cup {"gemini-2.5-flash-lite"}

InitFamilies ==
    /\ pool = InitPool(1)
    /\ req = [r \in Requests |-> IdleRq]
    /\ obs = [r \in Requests |-> IdleOb]
    /\ lastSuccess = [m \in Models |-> NoAccount]
    /\ started = 0
    /\ scenario = Scenario({}, FALSE, 1, {"sendMessageStream"}, RequestModels,
                           {FALSE}, {}, {"ok"}, {})
    /\ \E model \in FamilyInputs : wire = [path |-> <<model>>, families |-> <<>>]

(* getFallbackModel(model) of the model reached last *)
FollowFallback ==
    /\ Len(wire.path) < MaxFollow
    /\ getFallbackModel(wire.path[Len(wire.path)]) # NoModel
    /\ wire' = [wire EXCEPT !.path = Append(@, getFallbackModel(wire.path[Len(wire.path)]))]
    /\ UNCHANGED <<pool, req, obs, lastSuccess, started, scenario>>

(* getModelFamily(model) of the next model on the way *)
ClassifyFamily ==
    /\ Len(wire.families) < Len(wire.path)
    /\ wire' = [wire EXCEPT !.families =
                   Append(@, getModelFamily(split(wire.path[Len(wire.families) + 1])))]
    /\ UNCHANGED <<pool, req, obs, lastSuccess, started, scenario>>

NextFamilies ==
    \/ FollowFallback
    \/ ClassifyFamily

SpecFamilies == InitFamilies /\ [][NextFamilies]_vars

(* C34: every entry of the static fallback mapping is cross-family: the    *)
(* family of the fallback of a mapped model differs from the family of the *)
(* model, and neither family is 'unknown'.                                 *)
C34_CrossFamily ==
    \A i \in DOMAIN wire.families :
        i > 1 => /\ wire.path[i - 1] \in DOMAIN MODEL_FALLBACK_MAP
                 /\ wire.path[i] = MODEL_FALLBACK_MAP[wire.path[i - 1]]
                 /\ wire.families[i] # wire.families[i - 1]
                 /\ wire.families[i] # "unknown"
                 /\ wire.families[i - 1] # "unknown"

C34_Witness ==
    /\ wire.path[1] = "gemini-3-pro-low"
    /\ Len(wire.families) = 3
    /\ wire.families = <<"gemini", "claude", "gemini">>

----------------------------------------------------------------------------
(* The frames of the tool_use blocks *)

ToolStarts ==
    {b \in DOMAIN wire.yielded : /\ wire.yielded[b].type = "content_block_start"
                                 /\ wire.yielded[b].sub = "tool_use"}

(* the event that stops the block opened by event b; the event after the   *)
(* last one while the block is open                                        *)
StopOf(b) ==
    LET stops == {c \in DOMAIN wire.yielded : c > b /\ wire.yielded[c].type = "content_block_stop"}
    IN  IF stops = {} THEN Len(wire.yielded) + 1
        ELSE CHOOSE c \in stops : \A d \in stops : c <= d

(* the input chunks, in the order written, of the frames derived from the  *)
(* events lo..hi                                                           *)
RECURSIVE FrameInputs(_, _, _)
FrameInputs(lo, hi, i) ==
    IF i > Len(wire.res.frames) THEN <<>>
    ELSE (IF wire.res.frames[i].from \in lo..hi THEN wire.res.frames[i].input ELSE <<>>)
            \o FrameInputs(lo, hi, i + 1)

(* the partial_json of the input_json_delta events among the events lo..hi *)
RECURSIVE DeltaInputs(_, _)
DeltaInputs(lo, hi) ==
    IF lo > hi \/ lo > Len(wire.yielded) THEN <<>>
    ELSE (IF wire.yielded[lo].sub = "input_json_delta" THEN wire.yielded[lo].data ELSE <<>>)
            \o DeltaInputs(lo + 1, hi)

IsPrefix(p, q) == Len(p) <= Len(q) /\ p = SubSeq(q, 1, Len(p))

FramesFrom(n) == {i \in DOMAIN wire.res.frames : wire.res.frames[i].from = n}

(* C35: for every tool_use block the transformer writes one start          *)
(* toolUseEvent (name, toolUseId), then input toolUseEvents each carrying  *)
(* a non-empty chunk of at most 8 characters whose concatenation in order  *)
(* equals the partial_json of the block's input_json_delta events, then    *)
(* exactly one toolUseEvent with stop:true; no input or stop frame is      *)
(* written when no tool block is open, and the tool tracking is cleared    *)
(* after the stop.                                                         *)
C35_ToolUseFraming ==
    LET frames == wire.res.frames
    IN  /\ \A b \in ToolStarts :
              LET c == StopOf(b)
              IN  /\ Cardinality(FramesFrom(b)) = 1
                  /\ \A i \in FramesFrom(b) :
                        /\ frames[i].kind = "toolUseEvent"
                        /\ frames[i].name # NoTool /\ frames[i].toolUseId # NoTool
                        /\ frames[i].input = <<>> /\ ~frames[i].stop
                        /\ \A j \in DOMAIN frames :
                              frames[j].from \in (b + 1)..c =>
                                  /\ i < j
                                  /\ frames[j].kind = "toolUseEvent"
                                  /\ frames[j].name = frames[i].name
                                  /\ frames[j].toolUseId = frames[i].toolUseId
                  /\ \A j \in DOMAIN frames :
                        frames[j].from \in (b + 1)..(c - 1) =>
                            /\ ~frames[j].stop
                            /\ frames[j].input # <<>>
                            /\ Len(frames[j].input) <= 8
                  /\ IsPrefix(FrameInputs(b + 1, c - 1, 1), DeltaInputs(b + 1, c - 1))
                  /\ c <= Len(wire.yielded) =>
                        /\ FrameInputs(b + 1, c - 1, 1) = DeltaInputs(b + 1, c - 1)
                        /\ Cardinality(FramesFrom(c)) = 1
                        /\ \A j \in FramesFrom(c) : frames[j].stop /\ frames[j].input = <<>>
        /\ \A j \in DOMAIN frames :
              (frames[j].stop \/ frames[j].input # <<>>) =>
                  \E b \in ToolStarts : b < frames[j].from /\ frames[j].from <= StopOf(b)
        /\ (wire.yielded # <<>> /\ wire.yielded[Len(wire.yielded)].type = "content_block_stop") =>
              wire.currentToolId = NoTool /\ wire.currentToolName = NoTool

(* a block whose input came in two deltas, one of them chunked across      *)
(* delays, has been stopped                                                *)
C35_Witness ==
    \E b \in ToolStarts :
        /\ StopOf(b) = b + 3
        /\ StopOf(b) <= Len(wire.yielded)
        /\ Len(DeltaInputs(b + 1, b + 2)) = MaxJsonLen + 3
        /\ FrameInputs(b + 1, b + 2, 1) = DeltaInputs(b + 1, b + 2)
        /\ wire.res.frames[Len(wire.res.frames)].stop

----------------------------------------------------------------------------
(* The end of a Kiro response *)

FramesOfKind(kind) == {i \in DOMAIN wire.res.frames : wire.res.frames[i].kind = kind}

(* C36: when the event stream ends without error, the last two frames      *)
(* written are exactly one meteringEvent followed by exactly one           *)
(* contextUsageEvent, after every content frame, and the response is then  *)
(* ended exactly once; if no text or tool frame was written before,        *)
(* exactly one assistantResponseEvent with content '...' precedes them.    *)
C36_Completion ==
    LET frames == wire.res.frames
        n == Len(frames)
    IN  wire.outcome = "completed" =>
            /\ n >= 3
            /\ frames[n - 1].kind = "meteringEvent"
            /\ frames[n].kind = "contextUsageEvent"
            /\ Cardinality(FramesOfKind("meteringEvent")) = 1
            /\ Cardinality(FramesOfKind("contextUsageEvent")) = 1
            /\ \A i \in 1..(n - 2) : frames[i].kind \in {"assistantResponseEvent", "toolUseEvent"}
            /\ wire.res.ended = 1
            /\ wire.res.status = 0
            /\ (\A i \in 1..(n - 2) : frames[i].from = 0) =>
                  /\ n = 3
                  /\ frames[1].kind = "assistantResponseEvent"
                  /\ frames[1].content = <<".", ".", ".">>

(* a stream without content has ended *)
C36_Witness ==
    /\ wire.outcome = "completed"
    /\ Len(wire.res.frames) = 3
    /\ wire.res.frames[1].content = <<".", ".", ".">>
    /\ wire.res.frames[3].kind = "contextUsageEvent"
    /\ wire.res.ended = 1

----------------------------------------------------------------------------
(* Errors of a Kiro response *)

(* C37: an error, thrown by the dispatch or received as an error event,    *)
(* after at least one content frame was written is never re-issued as an   *)
(* HTTP status code: the response is just ended; an error before any       *)
(* content frame reaches the route handler, which answers HTTP 500 with a  *)
(* JSON error body; on every path the response is ended exactly once.      *)
C37_KiroErrors ==
    /\ wire.res.ended <= 1
    /\ wire.pc = "done" <=> wire.res.ended = 1
    /\ (wire.pc = "done" /\ wire.outcome # "completed") =>
          IF wire.res.frames # <<>>
          THEN /\ wire.outcome = "cut"
               /\ wire.res.status = 0
               /\ wire.res.body = ""
               /\ \A i \in DOMAIN wire.res.frames : wire.res.frames[i].from > 0
          ELSE /\ wire.outcome = "error"
               /\ wire.res.status = 500
               /\ wire.res.body = "api_error"

(* an error event arrived after a text frame was written *)
C37_Witness ==
    /\ wire.pc = "done"
    /\ wire.outcome = "cut"
    /\ wire.yielded[Len(wire.yielded)].type = "error"
    /\ \E i \in DOMAIN wire.res.frames : wire.res.frames[i].kind = "assistantResponseEvent"
    /\ wire.res.ended = 1
    /\ wire.res.status = 0

----------------------------------------------------------------------------
(* The model of a Kiro request: mapModelId, transformer.js 28-56, with the *)
(* presets of the configured provider, part_001 12-39                      *)

MODEL_PRESETS ==
    [gemini |-> [vibe |-> [primary |-> "gemini-3-pro-high", secondary |-> "gemini-3-flash"],
                 simple |-> "gemini-2.5-flash-lite"],
     claude |-> [vibe |-> [primary |-> "claude-opus-4-5-thinking",
                           secondary |-> "claude-sonnet-4-5-thinking"],
                 simple |-> "gemini-2.5-flash-lite"]]

(* process.env.KIRO_MODEL_PROVIDER; Undefined when it is not set *)
ProviderSettings == {Undefined, "gemini", "claude", "openai"}

MODEL_PROVIDER(setting) == IF setting = Undefined THEN "gemini" ELSE setting

getModelConfig(setting) ==
    IF MODEL_PROVIDER(setting) \in DOMAIN MODEL_PRESETS
    THEN MODEL_PRESETS[MODEL_PROVIDER(setting)]
    ELSE MODEL_PRESETS.gemini

KiroModelIds ==
    {Undefined, "", "auto", "simple-task", "claude-opus-4-5-thinking",
     "claude-sonnet-4-5-thinking", "gemini-3-pro-high", "gemini-3-flash",
     "gemini-2.5-flash-lite"}

AgentModes == {Undefined, "vibe", "intent-classification", "spec"}

(* kiroModelId?.includes(word) *)
idIncludes(kiroModelId, word) ==
    IF kiroModelId = Undefined THEN FALSE ELSE includes(split(kiroModelId), word)

mapModelId(kiroModelId, agentMode, setting) ==
    LET config == getModelConfig(setting)
    IN  IF kiroModelId = "simple-task" \/ agentMode = "intent-classification"
        THEN config.simple
        ELSE IF kiroModelId \notin {Undefined, ""}
                /\ kiroModelId # "auto" /\ kiroModelId # "simple-task"
             THEN kiroModelId
        ELSE IF agentMode = "vibe"
             THEN IF idIncludes(kiroModelId, "sonnet") \/ idIncludes(kiroModelId, "flash")
                  THEN config.vibe.secondary
                  ELSE config.vibe.primary
        ELSE config.vibe.secondary

Pending == "(pending)"

InitMapModel ==
    /\ pool = InitPool(1)
    /\ req = [r \in Requests |-> IdleRq]
    /\ obs = [r \in Requests |-> IdleOb]
    /\ lastSuccess = [m \in Models |-> NoAccount]
    /\ started = 0
    /\ scenario = Scenario({}, FALSE, 1, {"sendMessageStream"}, RequestModels,
                           {FALSE}, {}, {"ok"}, {})
    /\ \E id \in KiroModelIds, mode \in AgentModes, setting \in ProviderSettings :
          wire = [kiroModelId |-> id, agentMode |-> mode, provider |-> setting,
                  model |-> Pending]

(* kiroToAnthropic maps the model of the request *)
MapModelId ==
    /\ wire.model = Pending
    /\ wire' = [wire EXCEPT !.model = mapModelId(wire.kiroModelId, wire.agentMode,
                                                 wire.provider)]
    /\ UNCHANGED <<pool, req, obs, lastSuccess, started, scenario>>

NextMapModel == MapModelId

SpecMapModel == InitMapModel /\ [][NextMapModel]_vars

(* C38: in agent mode 'vibe', for every model id: if the id hints at a     *)
(* sonnet- or flash-level model (it contains 'sonnet' or 'flash') the      *)
(* configured vibe secondary model is returned, otherwise the configured   *)
(* vibe primary model.                                                     *)
C38_VibeModel ==
    (wire.agentMode = "vibe" /\ wire.model # Pending) =>
        wire.model = IF idIncludes(wire.kiroModelId, "sonnet")
                        \/ idIncludes(wire.kiroModelId, "flash")
                     THEN getModelConfig(wire.provider).vibe.secondary
                     ELSE getModelConfig(wire.provider).vibe.primary

====
